---- MODULE Spec2Model ----
(***************************************************************************)
(* Model of the question-answering pipeline of MCP_CFO_Modular:            *)
(* AnalyticsEngine.cached_intelligent_analyze and the components it drives *)
(* (KQLStorage, SchemaManager, Utils, ResponseFormatter).                  *)
(*                                                                         *)
(* Text (questions, LLM replies, SQL) is a sequence of one-character       *)
(* strings, so that lower-casing, whitespace handling and substring tests  *)
(* are computed the way the Python code computes them.                     *)
(***************************************************************************)
EXTENDS Integers, Sequences, FiniteSets, TLC

(***************************************************************************)
(* Bounds of the model.                                                    *)
(***************************************************************************)
MaxRequests == 2
MaxTicks == 2
MaxSqlCalls == 2

(***************************************************************************)
(* Text library: Python str operations on character sequences.             *)
(***************************************************************************)
None == "None"
SQ == "'"
DQ == "\""
\* the backquote character, which the TLA+ lexer does not accept in a string
BT == "BT"

UpperChars == <<"A","B","C","D","E","F","G","H","I","J","K","L","M","N","O","P","Q","R","S","T","U","V","W","X","Y","Z">>
LowerChars == <<"a","b","c","d","e","f","g","h","i","j","k","l","m","n","o","p","q","r","s","t","u","v","w","x","y","z">>

IndexIn(c, alphabet) ==
    IF \E i \in 1..Len(alphabet) : alphabet[i] = c
    THEN CHOOSE i \in 1..Len(alphabet) : alphabet[i] = c
    ELSE 0

LowerChar(c) == IF IndexIn(c, UpperChars) = 0 THEN c ELSE LowerChars[IndexIn(c, UpperChars)]
UpperChar(c) == IF IndexIn(c, LowerChars) = 0 THEN c ELSE UpperChars[IndexIn(c, LowerChars)]

\* Evaluate x, then e.  The model checker evaluates definitions on demand;
\* this keeps the evaluation of a long chain of text operations shallow.
Then(x, e) == IF x = x THEN e ELSE e

\* a function with domain 1..n as an explicit sequence
AsSeq(f) == SubSeq(f, 1, Len(f))

\* str.lower() / str.upper()
Lower(s) == AsSeq([i \in 1..Len(s) |-> LowerChar(s[i])])
Upper(s) == AsSeq([i \in 1..Len(s) |-> UpperChar(s[i])])

\* characters matched by \s and removed by str.strip()
IsWs(c) == c \in {" ", "\n", "\t", "\r"}

\* s[i:i+len(p)] == p
MatchAt(s, p, i) ==
    /\ i >= 1
    /\ i + Len(p) - 1 <= Len(s)
    /\ \A k \in 1..Len(p) : s[i + k - 1] = p[k]

\* p in s
Contains(s, p) == \E i \in 1..(Len(s) - Len(p) + 1) : MatchAt(s, p, i)
StartsWith(s, p) == MatchAt(s, p, 1)
EndsWith(s, p) == MatchAt(s, p, Len(s) - Len(p) + 1)

\* s.find(p), 1-based; 0 when absent
Find(s, p) ==
    IF Contains(s, p)
    THEN CHOOSE i \in 1..(Len(s) - Len(p) + 1) :
            MatchAt(s, p, i) /\ \A j \in 1..(i - 1) : ~MatchAt(s, p, j)
    ELSE 0

\* str.strip()
Strip(s) ==
    IF \A i \in 1..Len(s) : IsWs(s[i]) THEN <<>>
    ELSE LET a == CHOOSE i \in 1..Len(s) : ~IsWs(s[i]) /\ \A j \in 1..(i - 1) : IsWs(s[j])
             b == CHOOSE i \in 1..Len(s) : ~IsWs(s[i]) /\ \A j \in (i + 1)..Len(s) : IsWs(s[j])
         IN SubSeq(s, a, b)

\* least j >= i at which p occurs in s, 0 when there is none
NextMatch(s, p, i) ==
    IF \E j \in i..Len(s) : MatchAt(s, p, j)
    THEN CHOOSE j \in i..Len(s) : MatchAt(s, p, j) /\ \A k \in i..(j - 1) : ~MatchAt(s, p, k)
    ELSE 0

RECURSIVE ReplaceFrom(_, _, _, _)
ReplaceFrom(s, old, new, i) ==
    LET j == NextMatch(s, old, i) IN
    IF j = 0 THEN SubSeq(s, i, Len(s))
    ELSE SubSeq(s, i, j - 1) \o new \o ReplaceFrom(s, old, new, j + Len(old))

\* str.replace(old, new), old non-empty: leftmost non-overlapping occurrences
Replace(s, old, new) == ReplaceFrom(s, old, new, 1)

\* the subsequence of s at the positions in keep, in order
Pick(s, keep) ==
    AsSeq([k \in 1..Cardinality(keep) |->
            s[CHOOSE i \in keep : Cardinality({j \in keep : j <= i}) = k]])

\* re.sub(r'\s+', ' ', s)
CollapseWs(s) ==
    Pick(AsSeq([i \in 1..Len(s) |-> IF IsWs(s[i]) THEN " " ELSE s[i]]),
         {i \in 1..Len(s) : ~IsWs(s[i]) \/ i = 1 \/ ~IsWs(s[i - 1])})

\* len(s.split()): the number of maximal runs of non-whitespace
WordCount(s) ==
    Cardinality({i \in 1..Len(s) : ~IsWs(s[i]) /\ (i = 1 \/ IsWs(s[i - 1]))})

(***************************************************************************)
(* Question texts and the classifier (analytics_engine.py).                *)
(***************************************************************************)
K_why == <<"w","h","y">>
K_how == <<"h","o","w">>
K_what == <<"w","h","a","t">>
K_explain == <<"e","x","p","l","a","i","n">>
K_analyze == <<"a","n","a","l","y","z","e">>
T_tables_info == <<"t","a","b","l","e","s","_","i","n","f","o">>
T_schema_info == <<"s","c","h","e","m","a","_","i","n","f","o">>
G_hi == <<"h","i">>
G_hello == <<"h","e","l","l","o">>
G_hey == <<"h","e","y">>
G_greetings == <<"g","r","e","e","t","i","n","g","s">>

\* "why does it do that": five words, contains "why"
Q_WhyDoesItDoThat == <<"w","h","y"," ","d","o","e","s"," ","i","t"," ","d","o"," ","t","h","a","t">>
\* "why do that": three words, contains "why"
Q_WhyDoThat == <<"w","h","y"," ","d","o"," ","t","h","a","t">>
\* "list sales": already in normalized form
Q_ListSales == <<"l","i","s","t"," ","s","a","l","e","s">>
\* "List  Sales": normalizes to "list sales"
Q_ListSalesRaw == <<"L","i","s","t"," "," ","S","a","l","e","s">>
\* "Hi"
Q_Hi == <<"H","i">>
\* "Tables_Info": a probe question, compared after lower()
Q_TablesInfo == <<"T","a","b","l","e","s","_","I","n","f","o">>
\* "list tables_info": not a probe question, but its text mentions one
Q_ProbeMention == <<"l","i","s","t"," ","t","a","b","l","e","s","_","i","n","f","o">>

\* the questions a client may send
Questions ==
    {Q_WhyDoesItDoThat, Q_WhyDoThat, Q_ListSales, Q_ListSalesRaw, Q_Hi, Q_TablesInfo, Q_ProbeMention}

obvious_contextual == {K_why, K_how, K_what, K_explain, K_analyze}
ProbeQuestions == {T_tables_info, T_schema_info}
vague_questions == {G_hi, G_hello, G_hey, G_greetings}

\* a variant that leaves out the test on the number of words
is_contextual_any_length(question) ==
    \E word \in obvious_contextual : Contains(Strip(Lower(question)), word)

\* AnalyticsEngine.is_contextual_question; Python's implicit None is falsy
is_contextual_question(question) ==
    LET question_lower == Strip(Lower(question))
    IN IF WordCount(question_lower) <= 4
       THEN \E word \in obvious_contextual : Contains(question_lower, word)
       ELSE FALSE

\* AnalyticsEngine.is_casual_greeting
is_casual_greeting(question) == Strip(Lower(question)) \in vague_questions

\* question.lower() in ['tables_info', 'schema_info']
IsProbe(question) == Lower(question) \in ProbeQuestions

\* Utils.normalize_question
normalize_question(question) == CollapseWs(Strip(Lower(question)))

(***************************************************************************)
(* SQL repair: Utils.remove_sql_comments and Utils.clean_generated_sql     *)
(* (utils/helpers.py).                                                     *)
(***************************************************************************)
W_SELECT == <<"S","E","L","E","C","T">>
W_FROM == <<"F","R","O","M">>
W_FENCE == <<BT, BT, BT>>

\* index of the first "\n" at or after i, Len(s) + 1 when there is none
LineEnd(s, i) ==
    IF \E j \in i..Len(s) : s[j] = "\n"
    THEN CHOOSE j \in i..Len(s) : s[j] = "\n" /\ \A k \in i..(j - 1) : s[k] # "\n"
    ELSE Len(s) + 1

\* index following the "*/" that closes a block comment opened at i,
\* Len(s) + 1 when it is not closed
BlockEnd(s, i) ==
    IF \E p \in (i + 2)..(Len(s) - 1) : s[p] = "*" /\ s[p + 1] = "/"
    THEN 2 + CHOOSE p \in (i + 2)..(Len(s) - 1) :
                /\ s[p] = "*" /\ s[p + 1] = "/"
                /\ \A q \in (i + 2)..(p - 1) : ~(s[q] = "*" /\ s[q + 1] = "/")
    ELSE Len(s) + 1

\* least j >= i at which the scanner, outside a string, does not just copy
\* the character: a quote, "--" or "/*"; Len(sql) + 1 when there is none
NextSpecial(sql, i) ==
    LET special(j) == \/ sql[j] \in {SQ, DQ}
                      \/ j + 1 <= Len(sql) /\ sql[j] = "-" /\ sql[j + 1] = "-"
                      \/ j + 1 <= Len(sql) /\ sql[j] = "/" /\ sql[j + 1] = "*"
    IN IF \E j \in i..Len(sql) : special(j)
       THEN CHOOSE j \in i..Len(sql) : special(j) /\ \A k \in i..(j - 1) : ~special(k)
       ELSE Len(sql) + 1

\* a variant that takes a quote for a literal of one character
StringEndAtQuote(sql, i) == i

\* index of the quote closing the string opened at i, Len(sql) + 1 when open
StringEnd(sql, i) ==
    IF \E j \in (i + 1)..Len(sql) : sql[j] = sql[i]
    THEN CHOOSE j \in (i + 1)..Len(sql) :
            sql[j] = sql[i] /\ \A k \in (i + 1)..(j - 1) : sql[k] # sql[i]
    ELSE Len(sql) + 1

RECURSIVE ScanComments(_, _)
\* the while loop of remove_sql_comments from index i, outside a string
ScanComments(sql, i) ==
    LET j == NextSpecial(sql, i) IN
    IF j > Len(sql) THEN SubSeq(sql, i, Len(sql))
    ELSE SubSeq(sql, i, j - 1) \o
         ( IF sql[j] \in {SQ, DQ}
           THEN LET e == StringEnd(sql, j) IN
                IF e > Len(sql) THEN SubSeq(sql, j, Len(sql))
                ELSE SubSeq(sql, j, e) \o ScanComments(sql, e + 1)
           ELSE IF sql[j] = "-"
           THEN LET e == LineEnd(sql, j) IN
                IF e > Len(sql) THEN <<>> ELSE <<" ">> \o ScanComments(sql, e + 1)
           ELSE <<" ">> \o ScanComments(sql, BlockEnd(sql, j)) )

\* Utils.remove_sql_comments
remove_sql_comments(sql) == ScanComments(sql, 1)

RECURSIVE SplitFrom(_, _)
SplitFrom(s, i) ==
    LET j == LineEnd(s, i) IN
    IF j > Len(s) THEN <<SubSeq(s, i, Len(s))>>
    ELSE <<SubSeq(s, i, j - 1)>> \o SplitFrom(s, j + 1)

\* s.split('\n')
SplitLines(s) == SplitFrom(s, 1)

RECURSIVE JoinFrom(_, _, _)
JoinFrom(parts, sep, k) ==
    IF k > Len(parts) THEN <<>>
    ELSE IF k = Len(parts) THEN parts[k]
    ELSE parts[k] \o sep \o JoinFrom(parts, sep, k + 1)

\* sep.join(parts)
Join(parts, sep) == JoinFrom(parts, sep, 1)

\* s.rstrip(c) for a single character c
RStripChar(s, c) ==
    IF \A i \in 1..Len(s) : s[i] = c THEN <<>>
    ELSE SubSeq(s, 1, CHOOSE i \in 1..Len(s) : s[i] # c /\ \A j \in (i + 1)..Len(s) : s[j] = c)

RECURSIVE ReplaceAll(_, _, _)
ReplaceAll(s, table, k) ==
    IF k > Len(table) THEN s
    ELSE LET t == Replace(s, table[k][1], table[k][2])
         IN Then(t, ReplaceAll(t, table, k + 1))

\* the str.replace calls before the line loop, in order
SyntaxFixes ==
    <<<<<<"G","R","O","U","P"," ","B","Y">>, <<"G","R","O","U","P"," ","B","Y"," ">>>>,
      <<<<"O","R","D","E","R"," ","B","Y">>, <<"O","R","D","E","R"," ","B","Y"," ">>>>,
      <<<<"G","R","O","U","P"," "," ","B","Y">>, <<"G","R","O","U","P"," ","B","Y"," ">>>>,
      <<<<"O","R","D","E","R"," "," ","B","Y">>, <<"O","R","D","E","R"," ","B","Y"," ">>>>,
      <<<<"G","R","O","U","P"," ","B","Y","[">>, <<"G","R","O","U","P"," ","B","Y"," ","[">>>>,
      <<<<"O","R","D","E","R"," ","B","Y","[">>, <<"O","R","D","E","R"," ","B","Y"," ","[">>>>,
      <<<<"G","R","O","U","P"," ","B","Y","D","A","T","E","P","A","R","T">>, <<"G","R","O","U","P"," ","B","Y"," ","D","A","T","E","P","A","R","T">>>>,
      <<<<"O","R","D","E","R"," ","B","Y","D","A","T","E","P","A","R","T">>, <<"O","R","D","E","R"," ","B","Y"," ","D","A","T","E","P","A","R","T">>>>,
      <<<<")"," ","G","R","O","U","P"," ","B","Y">>, <<" ","G","R","O","U","P"," ","B","Y">>>>,
      <<<<"G","R","O","U","P"," ","B","Y"," ","G","R","O","U","P"," ","B","Y">>, <<"G","R","O","U","P"," ","B","Y">>>>,
      <<<<"W","H","E","R","E"," ","S","U","M","(">>, <<"H","A","V","I","N","G"," ","S","U","M","(">>>>,
      <<<<"W","H","E","R","E"," ","C","O","U","N","T","(">>, <<"H","A","V","I","N","G"," ","C","O","U","N","T","(">>>>,
      <<<<"W","H","E","R","E"," ","A","V","G","(">>, <<"H","A","V","I","N","G"," ","A","V","G","(">>>>>>

\* the str.replace calls of the final cleanup, in order
FinalFixes ==
    <<<<<<"G","R","O","U","P"," ","B","Y","D","A","T","E","P","A","R","T">>, <<"G","R","O","U","P"," ","B","Y"," ","D","A","T","E","P","A","R","T">>>>,
      <<<<"O","R","D","E","R"," ","B","Y","D","A","T","E","P","A","R","T">>, <<"O","R","D","E","R"," ","B","Y"," ","D","A","T","E","P","A","R","T">>>>,
      <<<<"G","R","O","U","P"," ","B","Y"," ","B","Y">>, <<"G","R","O","U","P"," ","B","Y">>>>,
      <<<<"O","R","D","E","R"," ","B","Y"," ","B","Y">>, <<"O","R","D","E","R"," ","B","Y">>>>>>

LineKeywords ==
    {<<"F","R","O","M">>,
     <<"W","H","E","R","E">>,
     <<"J","O","I","N">>,
     <<"L","E","F","T">>,
     <<"R","I","G","H","T">>,
     <<"I","N","N","E","R">>,
     <<"O","N">>,
     <<"G","R","O","U","P">>,
     <<"H","A","V","I","N","G">>,
     <<"O","R","D","E","R">>,
     <<"A","N","D">>,
     <<"O","R">>,
     <<"C","A","S","E">>,
     <<"W","H","E","N">>,
     <<"T","H","E","N">>,
     <<"E","L","S","E">>,
     <<"E","N","D">>}

SqlChars == {"[", "]", ".", ",", "(", ")", "=", "<", ">", "!", SQ, DQ}

ObviousIssues ==
    {<<"F","R","O","M"," ","F","R","O","M">>,
     <<","," ","F","R","O","M">>,
     <<"S","E","L","E","C","T"," ","F","R","O","M">>,
     <<"W","H","E","R","E"," ","F","R","O","M">>}

DanglingKeywords ==
    {<<"F","R","O","M">>,
     <<"S","E","L","E","C","T">>,
     <<"W","H","E","R","E">>,
     <<"A","N","D">>,
     <<"O","R">>,
     <<"J","O","I","N">>,
     <<"O","N">>,
     <<"G","R","O","U","P"," ","B","Y">>}

\* the code-fence removal at the head of clean_generated_sql
StripFence(sql) ==
    IF StartsWith(sql, W_FENCE)
    THEN LET lines == SplitLines(sql)
             closing == {i \in 2..Len(lines) : StartsWith(Strip(lines[i]), W_FENCE)}
             end_idx == IF closing = {} THEN Len(lines)
                        ELSE (CHOOSE i \in closing : \A j \in closing : i <= j) - 1
         IN Join(SubSeq(lines, 2, end_idx), <<"\n">>)
    ELSE sql

RECURSIVE CleanLines(_, _, _, _)
\* the line loop of clean_generated_sql: the lines kept for the statement
CleanLines(lines, k, in_select, sql_lines) ==
    IF k > Len(lines) THEN sql_lines
    ELSE LET line == Strip(lines[k])
             up == Upper(line)
         IN IF line = <<>> THEN CleanLines(lines, k + 1, in_select, sql_lines)
            ELSE IF StartsWith(up, W_SELECT) THEN CleanLines(lines, k + 1, TRUE, <<line>>)
            ELSE IF ~in_select THEN CleanLines(lines, k + 1, in_select, sql_lines)
            ELSE IF \E keyword \in LineKeywords : Contains(up, keyword)
                 THEN CleanLines(lines, k + 1, in_select, Append(sql_lines, line))
            ELSE IF \E i \in 1..Len(line) : line[i] \in SqlChars
                 THEN CleanLines(lines, k + 1, in_select, Append(sql_lines, line))
            ELSE sql_lines

\* the "Basic validation" block of clean_generated_sql
ValidateCleaned(sql) ==
    LET sql_upper == Upper(sql) IN
    IF sql = <<>> THEN sql
    ELSE IF ~StartsWith(sql_upper, W_SELECT) \/ ~Contains(sql_upper, W_FROM) THEN <<>>
    ELSE IF \E issue \in ObviousIssues : Contains(sql_upper, issue) THEN <<>>
    ELSE IF \E keyword \in DanglingKeywords : EndsWith(sql_upper, keyword) THEN <<>>
    ELSE sql

\* Utils.clean_generated_sql
clean_generated_sql(sql_text) ==
    IF sql_text = <<>> THEN <<>>
    ELSE LET s1 == StripFence(Strip(sql_text))
             s2 == ReplaceAll(remove_sql_comments(s1), SyntaxFixes, 1)
             s3 == CleanLines(SplitLines(s2), 1, FALSE, <<>>)
             s4 == RStripChar(RStripChar(Strip(Join(s3, <<" ">>)), ";"), ",")
             s5 == ReplaceAll(remove_sql_comments(s4), FinalFixes, 1)
             s6 == CollapseWs(s5)
         IN Then(s1, Then(s2, Then(s3, Then(s4, Then(s5, Then(s6, ValidateCleaned(s6)))))))

(***************************************************************************)
(* GROUP BY validation: Utils.parse_select_columns,                        *)
(* Utils.is_column_in_group_by and Utils.validate_group_by_syntax          *)
(* (utils/helpers.py).                                                     *)
(***************************************************************************)
W_GROUP_BY == <<"G","R","O","U","P"," ","B","Y">>
W_ORDER_BY == <<"O","R","D","E","R"," ","B","Y">>
W_HAVING == <<"H","A","V","I","N","G">>
W_AS == <<" ","A","S"," ">>
W_COMMA_SP == <<","," ">>

\* the pieces of s between the positions in cuts, in order
SplitAtCuts(s, cuts) ==
    LET n == Cardinality(cuts)
        cut(k) == IF k = 0 THEN 0
                  ELSE IF k = n + 1 THEN Len(s) + 1
                  ELSE CHOOSE i \in cuts : Cardinality({j \in cuts : j <= i}) = k
    IN AsSeq([k \in 1..(n + 1) |-> SubSeq(s, cut(k - 1) + 1, cut(k) - 1)])

\* s.split(',')
SplitCommas(s) == SplitAtCuts(s, {i \in 1..Len(s) : s[i] = ","})

\* [x.strip() for x in parts if x.strip()]
StripNonEmpty(parts) ==
    SelectSeq(AsSeq([k \in 1..Len(parts) |-> Strip(parts[k])]), LAMBDA x : x # <<>>)

\* paren_count when the loop of parse_select_columns reaches position i
ParenCount(s, i) ==
    Cardinality({j \in 1..(i - 1) : s[j] = "("}) - Cardinality({j \in 1..(i - 1) : s[j] = ")"})

aggregate_functions ==
    {<<"C","O","U","N","T","(">>,
     <<"S","U","M","(">>,
     <<"A","V","G","(">>,
     <<"M","A","X","(">>,
     <<"M","I","N","(">>,
     <<"S","T","D","E","V","(">>,
     <<"V","A","R","(">>}

\* a variant that keeps the alias of a SELECT item
ColumnWithAlias(col) == Strip(col)

\* the expression of a SELECT item: the text before its " AS " alias
ColumnExpr(col) ==
    LET col_upper == Upper(col) IN
    IF Contains(col_upper, W_AS) THEN Strip(SubSeq(col, 1, Find(col_upper, W_AS) - 1))
    ELSE Strip(col)

\* the items of a SELECT list between top-level commas that call no
\* aggregate function
NonAggregateItems(select_part) ==
    LET columns == StripNonEmpty(SplitAtCuts(select_part,
                       {i \in 1..Len(select_part) :
                            select_part[i] = "," /\ ParenCount(select_part, i) = 0}))
    IN SelectSeq(columns,
                 LAMBDA col : ~\E func \in aggregate_functions : Contains(Upper(col), func))

\* Utils.parse_select_columns: the non-aggregate items, each without its alias
parse_select_columns(select_part) ==
    LET kept == NonAggregateItems(select_part) IN
    AsSeq([k \in 1..Len(kept) |-> ColumnExpr(kept[k])])

\* replace('[', '').replace(']', '').replace(' ', '').upper()
NormalizeColumn(col) == Upper(SelectSeq(col, LAMBDA c : c \notin {"[", "]", " "}))

\* Utils.is_column_in_group_by
is_column_in_group_by(select_col, group_by_columns) ==
    \E k \in 1..Len(group_by_columns) :
        \/ NormalizeColumn(select_col) = NormalizeColumn(group_by_columns[k])
        \/ Contains(NormalizeColumn(group_by_columns[k]), NormalizeColumn(select_col))

\* the str.replace calls at the head of validate_group_by_syntax, in order
GroupByFixes ==
    <<<<<<"G","R","O","U","P"," ","B","Y","D","A","T","E","P","A","R","T">>, <<"G","R","O","U","P"," ","B","Y"," ","D","A","T","E","P","A","R","T">>>>,
      <<<<"O","R","D","E","R"," ","B","Y","D","A","T","E","P","A","R","T">>, <<"O","R","D","E","R"," ","B","Y"," ","D","A","T","E","P","A","R","T">>>>,
      <<<<"G","R","O","U","P"," ","B","Y"," ","B","Y">>, <<"G","R","O","U","P"," ","B","Y">>>>>>

\* the index at which the GROUP BY list of sql ends (exclusive): the next
\* ORDER BY or HAVING, or the end of the text
GroupByEnd(sql, group_by_start) ==
    LET sql_upper == Upper(sql)
        order_by_start == NextMatch(sql_upper, W_ORDER_BY, group_by_start)
        having_start == NextMatch(sql_upper, W_HAVING, group_by_start)
        ends == {Len(sql) + 1} \cup ({order_by_start, having_start} \ {0})
    IN CHOOSE e \in ends : \A x \in ends : e <= x

\* group_by_part: the text of the GROUP BY list of sql
GroupByPart(sql) ==
    LET g == Find(Upper(sql), W_GROUP_BY) IN Strip(SubSeq(sql, g + 8, GroupByEnd(sql, g) - 1))

\* the entries of the GROUP BY list of sql, as validate_group_by_syntax
\* reads them
GroupByColumns(sql) == StripNonEmpty(SplitCommas(GroupByPart(sql)))

\* select_part: the text between the first SELECT and the first FROM
SelectPart(sql) ==
    Strip(SubSeq(sql, Find(Upper(sql), W_SELECT) + 6, Find(Upper(sql), W_FROM) - 1))

\* the SELECT items of sql that validate_group_by_syntax wants in GROUP BY
SelectColumns(sql) == parse_select_columns(SelectPart(sql))

\* Utils.validate_group_by_syntax: the statement, the kind of message, and
\* the columns the message lists
validate_group_by_syntax(sql0) ==
    LET sql == ReplaceAll(sql0, GroupByFixes, 1)
        sql_upper == Upper(sql)
        group_by_start == Find(sql_upper, W_GROUP_BY)
    IN
    IF ~Contains(sql_upper, W_GROUP_BY)
    THEN [sql |-> sql, message |-> "No GROUP BY clause", added |-> <<>>]
    ELSE IF Find(sql_upper, W_SELECT) = 0 \/ Find(sql_upper, W_FROM) = 0
    THEN [sql |-> sql, message |-> "Invalid SQL structure", added |-> <<>>]
    ELSE
    LET group_by_end == GroupByEnd(sql, group_by_start)
        group_by_part == GroupByPart(sql)
        group_by_columns == GroupByColumns(sql)
        missing_columns == SelectSeq(SelectColumns(sql),
                               LAMBDA sel_col : ~is_column_in_group_by(sel_col, group_by_columns))
        new_group_by == IF group_by_part # <<>>
                        THEN group_by_part \o W_COMMA_SP \o Join(missing_columns, W_COMMA_SP)
                        ELSE Join(missing_columns, W_COMMA_SP)
        fixed_sql == SubSeq(sql, 1, group_by_start + 7) \o new_group_by \o
                     (IF group_by_end <= Len(sql)
                      THEN <<" ">> \o SubSeq(sql, group_by_end, Len(sql)) ELSE <<>>)
    IN IF missing_columns # <<>>
       THEN [sql |-> ReplaceAll(fixed_sql, SubSeq(GroupByFixes, 1, 2), 1),
             message |-> "Auto-fixed GROUP BY", added |-> missing_columns]
       ELSE [sql |-> sql, message |-> "GROUP BY validation passed", added |-> <<>>]

(***************************************************************************)
(* Utils.sanitize_sql (utils/helpers.py).                                  *)
(***************************************************************************)
W_error == <<"e","r","r","o","r">>

dangerous_keywords ==
    {<<"D","R","O","P">>,
     <<"D","E","L","E","T","E">>,
     <<"I","N","S","E","R","T">>,
     <<"U","P","D","A","T","E">>,
     <<"A","L","T","E","R">>,
     <<"C","R","E","A","T","E">>,
     <<"T","R","U","N","C","A","T","E">>,
     <<"E","X","E","C">>,
     <<"E","X","E","C","U","T","E">>,
     <<"S","P","_">>,
     <<"X","P","_">>,
     <<"O","P","E","N","R","O","W","S","E","T">>,
     <<"O","P","E","N","D","A","T","A","S","O","U","R","C","E">>}

\* "error" in group_by_msg.lower(): the fixed messages do not hold the word,
\* the column names listed by the auto-fix message may
MessageHasError(result) ==
    \E k \in 1..Len(result.added) : Contains(Lower(result.added[k]), W_error)

\* str(sqlparse.parse(sql)[0]): the first statement of the text, through the
\* first semicolon outside a quoted string
FirstStatement(sql) ==
    LET ends == {i \in 1..Len(sql) :
                    /\ sql[i] = ";"
                    /\ Cardinality({j \in 1..(i - 1) : sql[j] = SQ}) % 2 = 0}
    IN IF ends = {} THEN sql
       ELSE SubSeq(sql, 1, CHOOSE i \in ends : \A j \in ends : i <= j)

\* Utils.sanitize_sql: raises ValueError, or returns the first statement of
\* the text that validate_group_by_syntax returned
sanitize_sql(sql0) ==
    LET result == validate_group_by_syntax(sql0) IN
    IF \/ MessageHasError(result)
       \/ result.sql = <<>>
       \/ \E keyword \in dangerous_keywords : Contains(Upper(result.sql), keyword)
    THEN [raised |-> TRUE, sql |-> <<>>]
    ELSE [raised |-> FALSE, sql |-> FirstStatement(result.sql)]

(***************************************************************************)
(* Generated SQL texts.                                                    *)
(***************************************************************************)
\* "SELECT a FROM t"
S_Plain == <<"S","E","L","E","C","T"," ","a"," ","F","R","O","M"," ","t">>
\* "SELECT a FROM t ;"
S_TrailingSemicolon == <<"S","E","L","E","C","T"," ","a"," ","F","R","O","M"," ","t"," ",";">>
\* "SELECT a FROM t WHERE ;"
S_DanglingWhere == <<"S","E","L","E","C","T"," ","a"," ","F","R","O","M"," ","t"," ","W","H","E","R","E"," ",";">>
\* "SELECT a FROM t WHERE"
S_EndsWithWhere == <<"S","E","L","E","C","T"," ","a"," ","F","R","O","M"," ","t"," ","W","H","E","R","E">>
\* "SELECT 1"
S_NoFrom == <<"S","E","L","E","C","T"," ","1">>
\* Scenario A
S_ScenarioA == <<"S","E","L","E","C","T"," ","[","C","l","i","e","n","t","]",","," ","S","U","M","(","[","R","e","v","e","n","u","e","]",")"," ","F","R","O","M"," ","[","d","b","o","]",".","[","F","i","n","a","n","c","i","a","l","]"," ","G","R","O","U","P"," ","B","Y"," ","[","C","l","i","e","n","t","]">>
\* Scenario B
S_ScenarioB == <<"S","E","L","E","C","T"," ","[","C","l","i","e","n","t","]",","," ","D","A","T","E","P","A","R","T","(","Y","E","A","R",",","[","D","a","t","e","]",")"," ","A","S"," ","[","Y","e","a","r","]",","," ","S","U","M","(","[","R","e","v","e","n","u","e","]",")"," ","F","R","O","M"," ","[","d","b","o","]",".","[","F","i","n","a","n","c","i","a","l","]"," ","G","R","O","U","P"," ","B","Y"," ","[","C","l","i","e","n","t","]">>
\* a GROUP BY entry that is a function call with a comma
S_GroupByCall == <<"S","E","L","E","C","T"," ","D","A","T","E","P","A","R","T","(","Y","E","A","R",","," ","[","D","a","t","e","]",")",","," ","S","U","M","(","x",")"," ","F","R","O","M"," ","t"," ","G","R","O","U","P"," ","B","Y"," ","D","A","T","E","P","A","R","T","(","Y","E","A","R",","," ","[","D","a","t","e","]",")">>
\* an uncovered column, HAVING and ORDER BY after the GROUP BY list
S_HavingOrder == <<"S","E","L","E","C","T"," ","a",","," ","b",","," ","S","U","M","(","x",")"," ","F","R","O","M"," ","t"," ","G","R","O","U","P"," ","B","Y"," ","a"," ","H","A","V","I","N","G"," ","S","U","M","(","x",")"," ",">"," ","1"," ","O","R","D","E","R"," ","B","Y"," ","a">>
\* a second statement that drops a table
S_Drop == <<"S","E","L","E","C","T"," ","a"," ","F","R","O","M"," ","t",";"," ","D","R","O","P"," ","T","A","B","L","E"," ","t">>
\* a fenced block with a line comment
S_Fenced == <<BT,BT,BT,"s","q","l","\n","S","E","L","E","C","T"," ","a"," ","-","-","c","\n","F","R","O","M"," ","t","\n",BT,BT,BT>>
\* "SELECT a, FROM t"
S_CommaFrom == <<"S","E","L","E","C","T"," ","a",","," ","F","R","O","M"," ","t">>
\* lower case, two spaces inside "group  by"
S_LowerGroup == <<"s","e","l","e","c","t"," ","a"," ","f","r","o","m"," ","t"," ","g","r","o","u","p"," "," ","b","y"," ","a">>
\* two uncovered columns
S_TwoMissing == <<"S","E","L","E","C","T"," ","c",","," ","b"," ","F","R","O","M"," ","t"," ","G","R","O","U","P"," ","B","Y"," ","a">>
\* a covered column with an alias
S_AliasCovered == <<"S","E","L","E","C","T"," ","a"," ","A","S"," ","x",","," ","S","U","M","(","b",")"," ","F","R","O","M"," ","t"," ","G","R","O","U","P"," ","B","Y"," ","a">>
\* an empty GROUP BY list
S_GroupByDangling == <<"S","E","L","E","C","T"," ","a"," ","F","R","O","M"," ","t"," ","G","R","O","U","P"," ","B","Y">>
\* a column whose name holds a dangerous keyword
S_Updated == <<"S","E","L","E","C","T"," ","u","p","d","a","t","e","d","_","a","t"," ","F","R","O","M"," ","t">>
\* one uncovered column
S_Uncovered == <<"S","E","L","E","C","T"," ","a",","," ","b"," ","F","R","O","M"," ","t"," ","G","R","O","U","P"," ","B","Y"," ","a">>

\* the texts a reply to the SQL-generation prompt may carry
SqlTexts ==
    {<<>>, S_Plain, S_TrailingSemicolon, S_DanglingWhere, S_EndsWithWhere,
     S_NoFrom, S_ScenarioA, S_ScenarioB, S_GroupByCall,
     S_HavingOrder, S_Drop, S_Fenced, S_CommaFrom,
     S_LowerGroup, S_TwoMissing, S_AliasCovered, S_GroupByDangling,
     S_Updated, S_Uncovered}

(***************************************************************************)
(* The response parser inside intelligent_analyze_with_context and         *)
(* validate_sql_against_schema (analytics_engine.py).                      *)
(***************************************************************************)
M_SQL_QUERY == <<"S","Q","L","_","Q","U","E","R","Y",":">>
M_ANALYSIS == <<"A","N","A","L","Y","S","I","S",":">>
M_NO_SQL_NEEDED == <<"N","O","_","S","Q","L","_","N","E","E","D","E","D">>

\* A fixed message of the program is one token: a one-element text that no
\* substring test on characters can match.
Msg(m) == <<m>>
\* a text-valued key that is absent from a result dict
NoText == Msg(None)

\* s.split(marker, 1)[1], for s containing marker
AfterFirst(s, marker) == SubSeq(s, Find(s, marker) + Len(marker), Len(s))
\* s.split(marker, 1)[0], for s containing marker
BeforeFirst(s, marker) == SubSeq(s, 1, Find(s, marker) - 1)
\* s.split(marker)[-1]
AfterLast(s, marker) ==
    IF ~Contains(s, marker) THEN s
    ELSE LET i == CHOOSE i \in 1..Len(s) :
                    MatchAt(s, marker, i) /\ \A j \in (i + 1)..Len(s) : ~MatchAt(s, marker, j)
         IN SubSeq(s, i + Len(marker), Len(s))

\* a variant that does not strip what it extracts
ParseReplyUntrimmed(llm_response) ==
    IF Contains(llm_response, M_SQL_QUERY) /\ ~Contains(llm_response, M_NO_SQL_NEEDED)
    THEN IF Contains(llm_response, M_ANALYSIS)
         THEN LET rest == AfterFirst(llm_response, M_SQL_QUERY) IN
              IF Contains(rest, M_ANALYSIS)
              THEN [branch |-> "sql",
                    extracted |-> BeforeFirst(rest, M_ANALYSIS),
                    generated_sql |-> clean_generated_sql(BeforeFirst(rest, M_ANALYSIS)),
                    analysis |-> AfterFirst(rest, M_ANALYSIS)]
              ELSE [branch |-> "raise", extracted |-> <<>>, generated_sql |-> <<>>,
                    analysis |-> <<>>]
         ELSE [branch |-> "sql",
               extracted |-> AfterFirst(llm_response, M_SQL_QUERY),
               generated_sql |-> clean_generated_sql(AfterFirst(llm_response, M_SQL_QUERY)),
               analysis |-> Msg("SQL query generated")]
    ELSE [branch |-> "conversational",
          extracted |-> <<>>,
          generated_sql |-> <<>>,
          analysis |-> llm_response]

\* Lines 461-502 and 575-577: what the reply is taken to be.
\*   branch "sql": generated_sql and analysis were extracted
\*   branch "conversational": the model declined to write SQL
\*   branch "raise": parts[1] does not exist (IndexError), which the
\*                   except clause of line 587 turns into an "LLM error"
\* extracted is the text handed to clean_generated_sql.  The line scan of
\* lines 475-502 sits behind the test of line 471, which never fails where
\* line 462 held, so no reply reaches it.
ParseReply(llm_response) ==
    IF Contains(llm_response, M_SQL_QUERY) /\ ~Contains(llm_response, M_NO_SQL_NEEDED)
    THEN IF Contains(llm_response, M_ANALYSIS)
         THEN LET rest == AfterFirst(llm_response, M_SQL_QUERY) IN
              IF Contains(rest, M_ANALYSIS)
              THEN [branch |-> "sql",
                    extracted |-> Strip(BeforeFirst(rest, M_ANALYSIS)),
                    generated_sql |-> clean_generated_sql(Strip(BeforeFirst(rest, M_ANALYSIS))),
                    analysis |-> Strip(AfterFirst(rest, M_ANALYSIS))]
              ELSE [branch |-> "raise", extracted |-> <<>>, generated_sql |-> <<>>,
                    analysis |-> <<>>]
         ELSE [branch |-> "sql",
               extracted |-> Strip(AfterFirst(llm_response, M_SQL_QUERY)),
               generated_sql |-> clean_generated_sql(Strip(AfterFirst(llm_response, M_SQL_QUERY))),
               analysis |-> Msg("SQL query generated")]
    ELSE [branch |-> "conversational",
          extracted |-> <<>>,
          generated_sql |-> <<>>,
          analysis |-> IF Contains(llm_response, M_ANALYSIS)
                       THEN Strip(AfterLast(llm_response, M_ANALYSIS))
                       ELSE llm_response]

obvious_hallucinations ==
    {<<"R","e","v","e","n","u","e","_","G","r","o","w","t","h">>,
     <<"S","a","l","e","s","_","P","e","r","f","o","r","m","a","n","c","e">>,
     <<"C","u","s","t","o","m","e","r","_","A","n","a","l","y","t","i","c","s">>,
     <<"B","u","s","i","n","e","s","s","_","M","e","t","r","i","c","s">>,
     <<"F","i","n","a","n","c","i","a","l","_","S","u","m","m","a","r","y">>,
     <<"P","e","r","f","o","r","m","a","n","c","e","_","D","a","t","a">>,
     <<"M","o","n","t","h","l","y","_","R","e","p","o","r","t">>,
     <<"Q","u","a","r","t","e","r","l","y","_","D","a","t","a">>,
     <<"A","n","n","u","a","l","_","S","t","a","t","s">>}

\* AnalyticsEngine.validate_sql_against_schema, first component of the pair;
\* it is only called with a non-empty sql and a non-empty tables_info
validate_sql_against_schema(sql) ==
    ~\E hallucination \in obvious_hallucinations : Contains(Upper(sql), Upper(hallucination))

\* what the LLM may answer to the SQL-generation prompt
\* "SQL_QUERY:\nSELECT a FROM t\n\nANALYSIS:\nok"
R_Sql == <<"S","Q","L","_","Q","U","E","R","Y",":","\n","S","E","L","E","C","T"," ","a"," ","F","R","O","M"," ","t","\n","\n","A","N","A","L","Y","S","I","S",":","\n","o","k">>
\* "SQL_QUERY:\nSELECT 1\n\nANALYSIS:\nok" (Scenario C): the repair step rejects
\* the statement (no FROM)
R_BadSql == <<"S","Q","L","_","Q","U","E","R","Y",":","\n","S","E","L","E","C","T"," ","1","\n","\n","A","N","A","L","Y","S","I","S",":","\n","o","k">>
\* "SQL_QUERY:\nNO_SQL_NEEDED\n\nANALYSIS:\nhello"
R_NoSql == <<"S","Q","L","_","Q","U","E","R","Y",":","\n","N","O","_","S","Q","L","_","N","E","E","D","E","D","\n","\n","A","N","A","L","Y","S","I","S",":","\n","h","e","l","l","o">>
\* "SQL_QUERY:\nSELECT a FROM Annual_Stats\n\nANALYSIS:\nok": a hallucinated table
R_Hallucinated == <<"S","Q","L","_","Q","U","E","R","Y",":","\n","S","E","L","E","C","T"," ","a"," ","F","R","O","M"," ","A","n","n","u","a","l","_","S","t","a","t","s","\n","\n","A","N","A","L","Y","S","I","S",":","\n","o","k">>
\* "SQL_QUERY:\n--x\n\nANALYSIS:\nno": the repair step leaves nothing
R_EmptySql == <<"S","Q","L","_","Q","U","E","R","Y",":","\n","-","-","x","\n","\n","A","N","A","L","Y","S","I","S",":","\n","n","o">>

\* "ANALYSIS: x SQL_QUERY: SELECT a FROM t": no ANALYSIS: after SQL_QUERY:
R_AnalysisFirst == <<"A","N","A","L","Y","S","I","S",":"," ","x"," ","S","Q","L","_","Q","U","E","R","Y",":"," ","S","E","L","E","C","T"," ","a"," ","F","R","O","M"," ","t">>

\* "SQL_QUERY:\nSELECT a, b FROM t GROUP BY a\n\nANALYSIS:\nok": b is not grouped
R_Uncovered == <<"S","Q","L","_","Q","U","E","R","Y",":","\n","S","E","L","E","C","T"," ","a",","," ","b"," ","F","R","O","M"," ","t"," ","G","R","O","U","P"," ","B","Y"," ","a","\n","\n","A","N","A","L","Y","S","I","S",":","\n","o","k">>
\* "SQL_QUERY:\nSELECT a FROM t; DROP TABLE t\n\nANALYSIS:\nok"
R_Drop == <<"S","Q","L","_","Q","U","E","R","Y",":","\n","S","E","L","E","C","T"," ","a"," ","F","R","O","M"," ","t",";"," ","D","R","O","P"," ","T","A","B","L","E"," ","t","\n","\n","A","N","A","L","Y","S","I","S",":","\n","o","k">>
\* "SELECT a FROM t": a statement without the markers
R_BareSelect == <<"S","E","L","E","C","T"," ","a"," ","F","R","O","M"," ","t">>

LLMReplies == {R_Sql, R_BadSql, R_NoSql, R_Hallucinated, R_EmptySql, R_AnalysisFirst}
\* replies that carry a statement
SqlReplies == {R_Sql, R_BadSql, R_Uncovered, R_Drop, R_BareSelect}
AllReplies == LLMReplies \cup SqlReplies

(***************************************************************************)
(* The classification, normal forms and parses of the texts of the model,  *)
(* tabulated once.                                                         *)
(***************************************************************************)
\* a variant that looks every question other than a probe up in the cache
RouteLookupFirst(question) ==
    IF IsProbe(question) THEN [path |-> "probe", next |-> "analyze"]
    ELSE [path |-> "cacheable", next |-> "lookup"]

\* cached_intelligent_analyze, lines 130-156: the branch cached_intelligent_analyze takes for a question:
\* probe and contextual questions go straight to the fresh analysis, every
\* other question to the cache lookup
Route(question) ==
    IF IsProbe(question) THEN [path |-> "probe", next |-> "analyze"]
    ELSE IF is_contextual_question(question) THEN [path |-> "contextual", next |-> "analyze"]
    ELSE [path |-> "cacheable", next |-> "lookup"]

\* texts on which the classifier is exercised: up to MaxWords words, each a
\* keyword ("why"), a word that holds a keyword ("show" holds "how") or a
\* word that holds none ("sales"), and texts with capitals, other whitespace,
\* greetings and probe words
MaxWords == 5
ClassifierWords == {K_why, <<"s","h","o","w">>, <<"s","a","l","e","s">>}
SpecialTexts ==
    {<<" "," ","H","i"," ">>,
     <<"H","E","L","L","O">>,
     <<"h","e","y","\n">>,
     <<"g","r","e","e","t","i","n","g","s">>,
     <<"h","i"," ","w","h","y">>,
     <<"w","h","a","t","e","v","e","r">>,
     <<" ","t","a","b","l","e","s","_","i","n","f","o">>,
     <<"W","H","Y","\t","d","o"," "," ","t","h","a","t","\n","n","o","w">>,
     <<"E","x","p","l","a","i","n"," ","a"," ","b"," ","c"," ","d">>}
ClassifierTexts ==
    {Join(ws, <<" ">>) : ws \in UNION {[1..n -> ClassifierWords] : n \in 0..MaxWords}}
    \cup SpecialTexts \cup Questions

RouteOf == [q \in ClassifierTexts |-> Route(q)]
NormalizedOf == [q \in Questions |-> normalize_question(q)]
ContextualOf == [q \in Questions |-> is_contextual_question(q)]
VagueOf == [q \in Questions |-> Strip(Lower(q)) \in vague_questions]
ParsedOf == [t \in AllReplies |-> ParseReply(t)]
\* what validate_group_by_syntax and sanitize_sql make of the statement of a reply
GroupByOf == [t \in AllReplies |-> validate_group_by_syntax(ParsedOf[t].generated_sql)]
SanitizedOf == [t \in AllReplies |-> sanitize_sql(ParsedOf[t].generated_sql)]

(***************************************************************************)
(* State.                                                                  *)
(***************************************************************************)
VARIABLES
    store,                  \* the rows of the ChatHistory_CFO table, in ingestion order
    cached_tables_info,     \* SchemaManager.cached_tables_info
    schema_cache_timestamp, \* SchemaManager.schema_cache_timestamp
    gets,                   \* the calls of get_cached_tables_info, per caller
    nfetch,                 \* number of schema fetches started so far
    invalidated,            \* nfetch when refresh_cache last ran (NeverInvalidated: never)
    now,                    \* the clock read by time.time() and datetime.utcnow()
    ticks,                  \* number of clock advances so far
    pc,                     \* position of the request in cached_intelligent_analyze
    req,                    \* the arguments of the request
    path,                   \* "probe", "contextual" or "cacheable"
    calls,                  \* the external calls of the request, in order
    lookup,                 \* what get_from_kql_cache did for the request
    served,                 \* "cache" or "fresh": where raw_result came from
    raw_result,             \* the result dict of the request
    generated_sql,          \* the statement awaiting execution
    analysis,               \* the analysis text awaiting the response
    persisted,              \* what store_in_kql did for the request
    response,               \* what cached_intelligent_analyze returned
    outcome,                \* "pending", "returned" or "raised"
    nreq,                   \* number of requests started so far
    turns0,                 \* number of rows of the table when the request arrived
    llm_reply,              \* llm_response, the reply to the SQL-generation prompt
    raw_sql,                \* a generated SQL text handed to the functions of Utils
    cur_sql,                \* the text after the calls made so far
    prev_sql,               \* the text the last call was given
    sql_ops,                \* the calls made so far, in order
    sql_message             \* the message of the last call, None when it has none

schemaVars == <<cached_tables_info, schema_cache_timestamp, gets, nfetch, invalidated>>
clockVars == <<now, ticks>>
reqVars == <<pc, req, path, calls, lookup, served, raw_result, generated_sql, analysis,
             persisted, response, outcome, nreq, turns0, llm_reply>>
sqlVars == <<raw_sql, cur_sql, prev_sql, sql_ops, sql_message>>
vars == <<store, schemaVars, clockVars, reqVars, sqlVars>>

(***************************************************************************)
(* Sessions and result dicts.                                              *)
(***************************************************************************)
DefaultSession == "default-session-1234567890"
\* session_id if session_id else "default-session-1234567890"
ActualSession(session_id) == IF session_id = None THEN DefaultSession ELSE session_id

NoResult == [question |-> NoText, response_type |-> None, error |-> NoText,
             analysis |-> NoText, suggestion |-> NoText, generated_sql |-> NoText,
             result_count |-> -1, visualization |-> FALSE,
             session_id |-> None, ai_insights_enabled |-> FALSE]

\* AnalyticsEngine.create_error_response
create_error_response(error, analysis_text, suggestion, session_id, enable_ai_insights) ==
    [NoResult EXCEPT !.question = <<>>, !.error = error, !.analysis = analysis_text,
                     !.suggestion = suggestion, !.session_id = session_id,
                     !.ai_insights_enabled = enable_ai_insights]

\* the text of an exception raised by an external collaborator
ExcText == Msg("<exception>")

\* line 434
NoTablesResult(r) ==
    create_error_response(Msg("No accessible tables found."),
        Msg("The system couldn't find any tables in your database."),
        Msg("Check database connection and permissions."), ActualSession(r.session_id), r.enable_ai_insights)

\* line 596
AnalysisErrorResult(r) ==
    create_error_response(Msg("Analysis error: ") \o ExcText,
        Msg("I encountered an error while analyzing your question."),
        Msg("Try rephrasing your question with more specific details."), ActualSession(r.session_id), r.enable_ai_insights)

\* line 589
LlmErrorResult(r) ==
    create_error_response(Msg("LLM error: ") \o ExcText,
        Msg("Failed to process your question with the AI model."),
        Msg("Try rephrasing your question more clearly."), ActualSession(r.session_id), r.enable_ai_insights)

\* line 557
SqlExecutionErrorResult(r) ==
    create_error_response(Msg("SQL execution error: ") \o ExcText,
        Msg("The generated SQL query failed to execute."),
        Msg("There may be an issue with the query syntax or database schema."), ActualSession(r.session_id), r.enable_ai_insights)

\* line 513
InvalidSqlResult(r, sql) ==
    [NoResult EXCEPT !.question = r.question, !.response_type = "error",
                     !.error = Msg("Invalid SQL generated: ") \o Msg("<validation_message>"),
                     !.analysis = Msg("I generated SQL that references tables that don't exist in your database."),
                     !.suggestion = Msg("Let me help you with the available tables."),
                     !.generated_sql = sql, !.session_id = ActualSession(r.session_id),
                     !.ai_insights_enabled = r.enable_ai_insights]

\* line 565: "could not generate SQL"
NoSqlResult(r) ==
    [NoResult EXCEPT !.question = r.question, !.response_type = "error",
                     !.analysis = Msg("I couldn't generate SQL for your question: '") \o r.question
                                  \o Msg("'. This appears to be a data question but I wasn't able to create a valid query."),
                     !.suggestion = Msg("Try rephrasing your question more specifically"),
                     !.session_id = ActualSession(r.session_id),
                     !.ai_insights_enabled = r.enable_ai_insights]

\* line 578
ConversationalResult(r, analysis_text) ==
    [NoResult EXCEPT !.question = r.question, !.response_type = "conversational",
                     !.analysis = analysis_text, !.session_id = ActualSession(r.session_id),
                     !.ai_insights_enabled = r.enable_ai_insights]

\* line 530, with the visualization added at line 543
DataResult(r, sql, analysis_text, count, viz) ==
    [NoResult EXCEPT !.question = r.question, !.generated_sql = sql,
                     !.analysis = IF viz THEN analysis_text \o Msg("Chart Insights") ELSE analysis_text,
                     !.result_count = count, !.visualization = viz,
                     !.session_id = ActualSession(r.session_id),
                     !.ai_insights_enabled = r.enable_ai_insights]

\* "error" in raw_result
HasError(result) == result.error # NoText
\* an ErrorResult: error + suggestion
IsErrorResult(result) == HasError(result) /\ result.suggestion # NoText

\* the text-valued entries of a result dict
ResultTexts(result) ==
    {result.question, result.error, result.analysis, result.suggestion, result.generated_sql}

\* 'tables_info' in str(response)
MentionsTablesInfo(result) == \E t \in ResultTexts(result) : Contains(t, T_tables_info)

(***************************************************************************)
(* The conversation log (core/kql_storage.py).                             *)
(***************************************************************************)
\* base64.b64encode(json.dumps(response)): the column holds the encoded text
B64Json(result) == [enc |-> "b64", json |-> result]
\* a Response column holding the JSON text itself
PlainJson(result) == [enc |-> "json", json |-> result]

\* json.loads(column): base64 text is not JSON, so it raises
JsonLoadsOk(column) == column.enc = "json"

\* question.replace('\n', ' ').replace('\r', ' ').strip()
clean_question(question) ==
    Strip(Replace(Replace(question, <<"\n">>, <<" ">>), <<"\r">>, <<" ">>))

\* the row ingested by store_in_kql (session ids of the model carry no quotes)
NewRow(question, result, session_id) ==
    [SessionID |-> ActualSession(session_id), Timestamp |-> now,
     Question |-> clean_question(question), Response |-> B64Json(result)]

\* the rows selected by cache_query, before "take 1"
CacheMatches(question, session_id) ==
    {i \in 1..Len(store) :
        /\ store[i].SessionID = ActualSession(session_id)
        /\ store[i].Question = NormalizedOf[question]}

\* Rows written before base64 encoding was introduced hold the JSON text
\* itself (the readers of the table accept both forms, see the history query
\* of analytics_engine.py line 617).
LegacyResult(q) ==
    [NoResult EXCEPT !.question = q, !.generated_sql = <<"S","E","L","E","C","T"," ","a"," ","F","R","O","M"," ","t">>,
                     !.analysis = Msg("legacy analysis"), !.result_count = 3,
                     !.session_id = "powerbi_20250101_a"]
LegacyRow(q) ==
    [SessionID |-> "powerbi_20250101_a", Timestamp |-> 0,
     Question |-> q, Response |-> PlainJson(LegacyResult(q))]
\* the table when the service starts: empty, or holding legacy rows
InitialStores ==
    {<<>>, <<LegacyRow(Q_ListSales), LegacyRow(Q_WhyDoesItDoThat), LegacyRow(Q_WhyDoThat)>>}

(***************************************************************************)
(* The schema cache (core/schema_manager.py).                              *)
(***************************************************************************)
schema_cache_duration == 3600
\* the base tables of the data source
Tables == {"Financial", "Sales"}
\* cached_tables_info = None
NoSnapshot == [id |-> 0, tables |-> {}]
\* schema_cache_timestamp = None
NoTimestamp == -1
\* refresh_cache has not run yet
NeverInvalidated == -1
\* the callers of get_cached_tables_info: a request, an admin endpoint
Callers == {"req", "admin"}
\* a call of get_cached_tables_info: where it stands, the time it read, the
\* fetch it started (0: none), whether that fetch failed, the metadata queries
\* that failed inside it, what it returned
IdleGet == [pc |-> "idle", current_time |-> 0, id |-> 0, failed |-> FALSE, failures |-> {},
            result |-> NoSnapshot]
ClockSteps == {1, 3599}

\* what cached_intelligent_analyze returns: the raw result dict itself
\* (return_raw_data) or the chat message built by the formatter
NoResponse == [kind |-> None, type |-> None, message |-> None, session_id |-> None,
               found_records |-> -1, raw |-> NoResult]

\* the service before its first request, the table apart
InitRequest ==
    /\ cached_tables_info = NoSnapshot
    /\ schema_cache_timestamp = NoTimestamp
    /\ gets = [c \in Callers |-> IdleGet]
    /\ nfetch = 0
    /\ invalidated = NeverInvalidated
    /\ now = 0
    /\ ticks = 0
    /\ pc = "idle"
    /\ req = [question |-> <<>>, session_id |-> None, enable_ai_insights |-> FALSE,
              return_raw_data |-> FALSE]
    /\ path = None
    /\ calls = <<>>
    /\ lookup = None
    /\ served = None
    /\ raw_result = NoResult
    /\ generated_sql = <<>>
    /\ analysis = <<>>
    /\ persisted = None
    /\ response = NoResponse
    /\ outcome = "pending"
    /\ nreq = 0
    /\ turns0 = 0
    /\ llm_reply = NoText

\* the service before its first request
InitService ==
    /\ store \in InitialStores
    /\ InitRequest

\* no SQL text is under repair outside a request
Init ==
    /\ InitService
    /\ raw_sql = <<>>
    /\ cur_sql = <<>>
    /\ prev_sql = <<>>
    /\ sql_ops = <<>>
    /\ sql_message = None

(***************************************************************************)
(* SchemaManager.get_tables_info: the three metadata queries of each table *)
(* run under gather(return_exceptions=True); failures is the set of        *)
(* <<table, query>> pairs whose query raised.                              *)
(***************************************************************************)
MetadataQueries == {"columns", "fks", "sample_data"}
AllFail == Tables \X MetadataQueries
\* the failures a fetch may meet
FetchFailures ==
    {{}, {<<"Sales", "columns">>}, {<<"Sales", "fks">>}, {<<"Financial", "sample_data">>},
     AllFail}

\* a variant that drops a table only when its column query fails
fetch_table_metadata_columns_only(table, failures) ==
    IF <<table, "columns">> \in failures THEN None ELSE table

\* lines 93-102 and 135-144: None when one of the three results is an
\* exception, the description of the table otherwise
fetch_table_metadata(table, failures) ==
    IF \E q \in MetadataQueries : <<table, q>> \in failures THEN None ELSE table

\* lines 146-147: the descriptions that are not None
get_tables_info(failures) ==
    {info \in {fetch_table_metadata(table, failures) : table \in Tables} : info # None}

(***************************************************************************)
(* SchemaManager.get_cached_tables_info, for a caller c.  The call         *)
(* suspends once, at "await self.get_tables_info()".                       *)
(***************************************************************************)
\* a variant that still serves a snapshot whose age equals the TTL
CacheValidInclusive(current_time) ==
    /\ cached_tables_info # NoSnapshot
    /\ schema_cache_timestamp # NoTimestamp
    /\ current_time - schema_cache_timestamp <= schema_cache_duration

\* the condition of line 25
CacheValid(current_time) ==
    /\ cached_tables_info # NoSnapshot
    /\ schema_cache_timestamp # NoTimestamp
    /\ current_time - schema_cache_timestamp < schema_cache_duration

\* a variant with a single-flight guard: a call that finds a fetch in flight
\* joins it instead of starting its own
SchemaGetStartSingleFlight(c) ==
    /\ gets[c].pc = "idle"
    /\ IF CacheValid(now)
       THEN /\ gets' = [gets EXCEPT ![c] = [pc |-> "returned", current_time |-> now,
                                            id |-> 0, failed |-> FALSE, failures |-> {},
                                            result |-> cached_tables_info]]
            /\ nfetch' = nfetch
       ELSE IF \E d \in Callers : gets[d].pc = "fetching"
       THEN /\ gets' = [gets EXCEPT ![c] = [pc |-> "fetching", current_time |-> now,
                                            id |-> nfetch, failed |-> FALSE,
                                            failures |-> {}, result |-> NoSnapshot]]
            /\ nfetch' = nfetch
       ELSE /\ gets' = [gets EXCEPT ![c] = [pc |-> "fetching", current_time |-> now,
                                            id |-> nfetch + 1, failed |-> FALSE,
                                            failures |-> {}, result |-> NoSnapshot]]
            /\ nfetch' = nfetch + 1
    /\ UNCHANGED <<cached_tables_info, schema_cache_timestamp, invalidated>>

\* lines 22-36: serve the cache, or start a fetch
SchemaGetStart(c) ==
    /\ gets[c].pc = "idle"
    /\ IF CacheValid(now)
       THEN /\ gets' = [gets EXCEPT ![c] = [pc |-> "returned", current_time |-> now,
                                            id |-> 0, failed |-> FALSE, failures |-> {},
                                            result |-> cached_tables_info]]
            /\ nfetch' = nfetch
       ELSE /\ gets' = [gets EXCEPT ![c] = [pc |-> "fetching", current_time |-> now,
                                            id |-> nfetch + 1, failed |-> FALSE,
                                            failures |-> {}, result |-> NoSnapshot]]
            /\ nfetch' = nfetch + 1
    /\ UNCHANGED <<cached_tables_info, schema_cache_timestamp, invalidated>>

\* a variant that stores the snapshot and leaves the timestamp as it was
SchemaFetchOkSnapshotOnly(c, failures) ==
    /\ gets[c].pc = "fetching"
    /\ LET tables_info == [id |-> gets[c].id, tables |-> get_tables_info(failures)] IN
        /\ cached_tables_info' = tables_info
        /\ gets' = [gets EXCEPT ![c].pc = "returned", ![c].result = tables_info,
                                ![c].failures = failures]
    /\ UNCHANGED <<schema_cache_timestamp, nfetch, invalidated>>

\* lines 36-47: get_tables_info returned; failures are the metadata queries
\* that raised inside it
SchemaFetchOk(c, failures) ==
    /\ gets[c].pc = "fetching"
    /\ LET tables_info == [id |-> gets[c].id, tables |-> get_tables_info(failures)] IN
        /\ cached_tables_info' = tables_info
        /\ schema_cache_timestamp' = gets[c].current_time
        /\ gets' = [gets EXCEPT ![c].pc = "returned", ![c].result = tables_info,
                                ![c].failures = failures]
    /\ UNCHANGED <<nfetch, invalidated>>

\* a variant that drops the snapshot when the fetch fails
SchemaFetchFailClears(c) ==
    /\ gets[c].pc = "fetching"
    /\ gets' = [gets EXCEPT ![c].pc = "raised", ![c].failed = TRUE]
    /\ cached_tables_info' = NoSnapshot
    /\ schema_cache_timestamp' = NoTimestamp
    /\ UNCHANGED <<nfetch, invalidated>>

\* lines 49-55: get_tables_info raised
SchemaFetchFail(c) ==
    /\ gets[c].pc = "fetching"
    /\ gets' = IF cached_tables_info # NoSnapshot
               THEN [gets EXCEPT ![c].pc = "returned", ![c].failed = TRUE,
                                 ![c].result = cached_tables_info]
               ELSE [gets EXCEPT ![c].pc = "raised", ![c].failed = TRUE]
    /\ UNCHANGED <<cached_tables_info, schema_cache_timestamp, nfetch, invalidated>>

\* the clock advances by d seconds
Tick(d) ==
    /\ ticks < MaxTicks
    /\ now' = now + d
    /\ ticks' = ticks + 1

(***************************************************************************)
(* AnalyticsEngine.cached_intelligent_analyze, one request at a time.      *)
(***************************************************************************)
\* the requests of the model: every question in a session of the client with
\* the default flags, and some with no session or with a flag set
Requests ==
    {<<q, "powerbi_20250101_a", FALSE, FALSE>> : q \in Questions}
    \cup {<<Q_ListSales, None, FALSE, FALSE>>, <<Q_ListSales, "powerbi_20250101_a", TRUE, FALSE>>,
          <<Q_ListSales, "powerbi_20250101_a", FALSE, TRUE>>,
          <<Q_WhyDoThat, None, FALSE, TRUE>>}

\* lines 125-139: a request arrives and is classified
Request(question, session_id, enable_ai_insights, return_raw_data) ==
    /\ pc \in {"idle", "done"}
    /\ nreq < MaxRequests
    /\ nreq' = nreq + 1
    /\ req' = [question |-> question, session_id |-> session_id,
               enable_ai_insights |-> enable_ai_insights, return_raw_data |-> return_raw_data]
    /\ path' = RouteOf[question].path
    /\ pc' = RouteOf[question].next
    /\ calls' = <<>>
    /\ lookup' = None
    /\ served' = None
    /\ raw_result' = NoResult
    /\ generated_sql' = <<>>
    /\ analysis' = <<>>
    /\ persisted' = None
    /\ response' = NoResponse
    /\ outcome' = "pending"
    /\ turns0' = Len(store)
    /\ llm_reply' = NoText
    /\ gets' = [gets EXCEPT !["req"] = IdleGet]
    /\ UNCHANGED <<store, cached_tables_info, schema_cache_timestamp, nfetch, invalidated,
                   clockVars, sqlVars>>

\* a variant that analyses the question even when the cache answered
AfterLookupAlwaysFresh(found) == "analyze"

\* line 158, "if cached_result:": where the request goes after the lookup
AfterLookup(found) == IF found THEN "format" ELSE "analyze"

\* line 156 with get_from_kql_cache: the query raises, selects nothing, or
\* "take 1" yields some matching row whose Response column is then parsed
CacheLookup ==
    /\ pc = "lookup"
    /\ calls' = Append(calls, "cache_lookup")
    /\ \/ /\ lookup' = "raised"
          /\ pc' = AfterLookup(FALSE)
          /\ UNCHANGED <<raw_result, served>>
       \/ /\ CacheMatches(req.question, req.session_id) = {}
          /\ lookup' = "empty"
          /\ pc' = AfterLookup(FALSE)
          /\ UNCHANGED <<raw_result, served>>
       \/ \E i \in CacheMatches(req.question, req.session_id) :
            IF JsonLoadsOk(store[i].Response)
            THEN /\ lookup' = "hit"
                 /\ raw_result' = [store[i].Response.json EXCEPT
                                      !.session_id = ActualSession(req.session_id)]
                 /\ served' = "cache"
                 /\ pc' = AfterLookup(TRUE)
            ELSE /\ lookup' = "undecodable"
                 /\ pc' = AfterLookup(FALSE)
                 /\ UNCHANGED <<raw_result, served>>
    /\ UNCHANGED <<store, schemaVars, clockVars, sqlVars, req, path, generated_sql, analysis,
                   persisted, response, outcome, nreq, turns0, llm_reply>>

\* where the request goes once intelligent_analyze_with_context has returned
AfterAnalyze == IF path = "probe" THEN "format" ELSE "persist"

\* lines 432-437 and 594-599: what follows the schema lookup g
AfterSchema(g) ==
    IF g.pc = "raised"
    THEN raw_result' = AnalysisErrorResult(req) /\ pc' = AfterAnalyze
    ELSE IF g.result.tables = {}
    THEN raw_result' = NoTablesResult(req) /\ pc' = AfterAnalyze
    ELSE raw_result' = raw_result /\ pc' = "llm"

\* lines 417-432: intelligent_analyze_with_context starts; the history is
\* read and the schema is requested
AnalyzeStart ==
    /\ pc = "analyze"
    /\ SchemaGetStart("req")
    /\ served' = "fresh"
    /\ IF gets'["req"].pc = "fetching"
       THEN /\ pc' = "schema_fetch"
            /\ calls' = calls \o <<"history", "schema_fetch">>
            /\ UNCHANGED raw_result
       ELSE /\ calls' = Append(calls, "history")
            /\ AfterSchema(gets'["req"])
    /\ UNCHANGED <<store, clockVars, sqlVars, req, path, lookup, generated_sql, analysis,
                   persisted, response, outcome, nreq, turns0, llm_reply>>

\* the schema fetch of the request completes
AnalyzeFetchOk(failures) ==
    /\ pc = "schema_fetch"
    /\ SchemaFetchOk("req", failures)
    /\ AfterSchema(gets'["req"])
    /\ UNCHANGED <<store, clockVars, sqlVars, req, path, calls, lookup, served, generated_sql,
                   analysis, persisted, response, outcome, nreq, turns0, llm_reply>>

\* the schema fetch of the request fails
AnalyzeFetchFail ==
    /\ pc = "schema_fetch"
    /\ SchemaFetchFail("req")
    /\ AfterSchema(gets'["req"])
    /\ UNCHANGED <<store, clockVars, sqlVars, req, path, calls, lookup, served, generated_sql,
                   analysis, persisted, response, outcome, nreq, turns0, llm_reply>>

\* a variant that hands whatever was extracted to the executor
ShouldExecuteAnything(sql) == TRUE

\* line 504: generated_sql and generated_sql.upper().startswith("SELECT")
ShouldExecute(sql) == sql # <<>> /\ StartsWith(Upper(sql), W_SELECT)

\* a variant in which the exception of the LLM call leaves the request
LlmRaiseUncaught ==
    /\ pc = "llm"
    /\ calls' = Append(calls, "llm_sql")
    /\ llm_reply' = ExcText
    /\ outcome' = "raised"
    /\ pc' = "done"
    /\ UNCHANGED <<store, schemaVars, clockVars, sqlVars, req, path, lookup, served, raw_result,
                   generated_sql, analysis, persisted, response, nreq, turns0>>

\* line 459 raises: lines 587-592
LlmRaise ==
    /\ pc = "llm"
    /\ calls' = Append(calls, "llm_sql")
    /\ llm_reply' = ExcText
    /\ raw_result' = LlmErrorResult(req)
    /\ pc' = AfterAnalyze
    /\ UNCHANGED <<store, schemaVars, clockVars, sqlVars, req, path, lookup, served, generated_sql,
                   analysis, persisted, response, outcome, nreq, turns0>>

\* lines 459-523 and 563-585: the LLM answers; parse, repair, validate
LlmReply(llm_response) ==
    /\ pc = "llm"
    /\ calls' = Append(calls, "llm_sql")
    /\ llm_reply' = llm_response
    /\ LET p == ParsedOf[llm_response] IN
       IF p.branch = "raise"
       THEN raw_result' = LlmErrorResult(req) /\ pc' = AfterAnalyze
            /\ UNCHANGED <<generated_sql, analysis>>
       ELSE IF p.branch = "conversational"
       THEN raw_result' = ConversationalResult(req, p.analysis) /\ pc' = AfterAnalyze
            /\ UNCHANGED <<generated_sql, analysis>>
       ELSE IF ShouldExecute(p.generated_sql)
       THEN IF validate_sql_against_schema(p.generated_sql)
            THEN /\ generated_sql' = p.generated_sql
                 /\ analysis' = p.analysis
                 /\ pc' = "execute"
                 /\ UNCHANGED raw_result
            ELSE /\ raw_result' = InvalidSqlResult(req, p.generated_sql)
                 /\ pc' = AfterAnalyze
                 /\ UNCHANGED <<generated_sql, analysis>>
       ELSE /\ raw_result' = NoSqlResult(req)
            /\ pc' = AfterAnalyze
            /\ UNCHANGED <<generated_sql, analysis>>
    /\ UNCHANGED <<store, schemaVars, clockVars, sqlVars, req, path, lookup, served,
                   persisted, response, outcome, nreq, turns0>>

\* the numbers of rows a query may return
ResultCounts == {0, 3}

\* a variant that runs the statement a second time after a first failure
ExecuteRaiseRetry ==
    /\ pc = "execute"
    /\ calls' = Append(calls, "sql_execute")
    /\ IF \E i \in 1..Len(calls) : calls[i] = "sql_execute"
       THEN raw_result' = SqlExecutionErrorResult(req) /\ pc' = AfterAnalyze
       ELSE raw_result' = raw_result /\ pc' = "execute"
    /\ UNCHANGED <<store, schemaVars, clockVars, sqlVars, req, path, lookup, served, generated_sql,
                   analysis, persisted, response, outcome, nreq, turns0, llm_reply>>

\* line 526 raises: lines 555-562
ExecuteRaise ==
    /\ pc = "execute"
    /\ calls' = Append(calls, "sql_execute")
    /\ raw_result' = SqlExecutionErrorResult(req)
    /\ pc' = AfterAnalyze
    /\ UNCHANGED <<store, schemaVars, clockVars, sqlVars, req, path, lookup, served, generated_sql,
                   analysis, persisted, response, outcome, nreq, turns0, llm_reply>>

\* lines 526-553: the query returns count rows; a chart is generated when
\* VisualizationManager finds the rows suitable (viz), and the enhanced
\* analysis is added when there are rows and enable_ai_insights is set
ExecuteOk(count, viz) ==
    /\ pc = "execute"
    /\ viz => count > 0
    /\ calls' = calls \o <<"sql_execute">>
                      \o (IF viz THEN <<"llm_viz">> ELSE <<>>)
                      \o (IF count > 0 /\ req.enable_ai_insights THEN <<"llm_insights">> ELSE <<>>)
    /\ raw_result' = DataResult(req, generated_sql, analysis, count, viz)
    /\ pc' = AfterAnalyze
    /\ UNCHANGED <<store, schemaVars, clockVars, sqlVars, req, path, lookup, served, generated_sql,
                   analysis, persisted, response, outcome, nreq, turns0, llm_reply>>

\* a variant that skips the two probe questions only
SkipsStoreProbesOnly(question, result) == IsProbe(question)

\* store_in_kql line 138: the early return
SkipsStore(question, result) == IsProbe(question) \/ MentionsTablesInfo(result)

\* store_in_kql returns normally (lines 146 and 170): it returns at once
\* when the result mentions tables_info (line 138), else it ingests the row
Persist ==
    /\ pc = "persist"
    /\ IF SkipsStore(req.question, raw_result)
       THEN persisted' = "skipped" /\ UNCHANGED <<store, calls>>
       ELSE /\ persisted' = "stored"
            /\ store' = Append(store, NewRow(req.question, raw_result, req.session_id))
            /\ calls' = Append(calls, "store_write")
    /\ pc' = "format"
    /\ UNCHANGED <<schemaVars, clockVars, sqlVars, req, path, lookup, served, raw_result,
                   generated_sql, analysis, response, outcome, nreq, turns0, llm_reply>>

\* a variant in which the failure of the append becomes the result
PersistRaiseSurfaced(ingested) ==
    /\ pc = "persist"
    /\ ~SkipsStore(req.question, raw_result)
    /\ persisted' = "failed"
    /\ raw_result' = AnalysisErrorResult(req)
    /\ store' = IF ingested THEN Append(store, NewRow(req.question, raw_result, req.session_id))
                ELSE store
    /\ calls' = Append(calls, "store_write")
    /\ pc' = "format"
    /\ UNCHANGED <<schemaVars, clockVars, sqlVars, req, path, lookup, served,
                   generated_sql, analysis, response, outcome, nreq, turns0, llm_reply>>

\* store_in_kql raises, before the ingest took effect or after it (the
\* verification query); lines 147-148 and 173-175 log the exception and go on
PersistRaise(ingested) ==
    /\ pc = "persist"
    /\ ~SkipsStore(req.question, raw_result)
    /\ persisted' = "failed"
    /\ store' = IF ingested THEN Append(store, NewRow(req.question, raw_result, req.session_id))
                ELSE store
    /\ calls' = Append(calls, "store_write")
    /\ pc' = "format"
    /\ UNCHANGED <<schemaVars, clockVars, sqlVars, req, path, lookup, served, raw_result,
                   generated_sql, analysis, response, outcome, nreq, turns0, llm_reply>>

\* ResponseFormatter._determine_response_style
response_style(question, result) ==
    IF VagueOf[question] THEN "greeting"
    ELSE IF HasError(result) \/ result.response_type = "error" THEN "error_helpful"
    ELSE IF result.response_type = "conversational" THEN "conversational"
    ELSE IF (result.generated_sql # NoText /\ result.generated_sql # <<>>) \/ result.result_count > 0
         THEN "data_analysis"
    ELSE "default"

\* raw_result.get("result_count", 0)
CountOf(result) == IF result.result_count = -1 THEN 0 ELSE result.result_count

\* ResponseFormatter.format_response: fmt tells how the formatter fares:
\* "ok", "llm_raise" (its LLM call raises, a fixed text is used instead) or
\* "format_crash" (another exception, caught at line 36: _format_fallback)
format_response(question, result, fmt) ==
    LET style == response_style(question, result)
        msg == IF fmt = "ok" THEN "llm" ELSE "fallback"
        base == [NoResponse EXCEPT !.kind = "formatted", !.session_id = result.session_id]
    IN IF fmt = "format_crash" THEN [base EXCEPT !.type = "processing", !.message = "fallback"]
       ELSE IF style = "greeting" THEN [base EXCEPT !.type = "greeting", !.message = "fixed"]
       ELSE IF style = "error_helpful" THEN [base EXCEPT !.type = "help", !.message = msg]
       ELSE IF style = "conversational" THEN [base EXCEPT !.type = "conversational", !.message = msg]
       ELSE IF style = "data_analysis"
            THEN [base EXCEPT !.type = "analysis", !.message = msg, !.found_records = CountOf(result)]
       ELSE [base EXCEPT !.type = "response", !.message = "analysis"]

\* AnalyticsEngine._simple_natural_fallback
simple_natural_fallback(result) ==
    [NoResponse EXCEPT
        !.kind = "formatted",
        !.type = IF HasError(result) THEN "help"
                 ELSE IF result.response_type = "conversational" THEN "conversational"
                 ELSE IF CountOf(result) > 0 THEN "analysis"
                 ELSE "response",
        !.message = "fallback",
        !.session_id = result.session_id,
        !.found_records = IF CountOf(result) > 0 THEN CountOf(result) ELSE -1]

\* the LLM calls made while formatting: one by the formatters of the styles
\* error_helpful, conversational and data_analysis, one by
\* SmartResponseEnhancer._generate_follow_ups for a response of type analysis
FormatCalls(question, result, fmt) ==
    LET style == response_style(question, result) IN
    IF fmt \in {"format_crash", "outer_crash"} THEN <<>>
    ELSE IF style \in {"error_helpful", "conversational"} THEN <<"llm_format">>
    ELSE IF style = "data_analysis" THEN <<"llm_format", "llm_followups">>
    ELSE <<>>

\* AnalyticsEngine._format_natural_response; "outer_crash" is an exception
\* that reaches line 199
format_natural_response(question, result, fmt) ==
    IF fmt = "outer_crash" THEN simple_natural_fallback(result)
    ELSE format_response(question, result, fmt)

\* how the formatter may fare for a result
FormatOutcomes(question, result) ==
    IF response_style(question, result) \in {"greeting", "default"}
    THEN {"ok", "format_crash", "outer_crash"}
    ELSE {"ok", "llm_raise", "format_crash", "outer_crash"}

\* the return statements of cached_intelligent_analyze (lines 132-134,
\* 151-153, 162-164, 178-180)
Respond(fmt) ==
    /\ pc = "format"
    /\ IF req.return_raw_data
       THEN /\ fmt = "ok"
            /\ response' = [NoResponse EXCEPT !.kind = "raw", !.raw = raw_result,
                                              !.session_id = raw_result.session_id]
            /\ UNCHANGED calls
       ELSE /\ fmt \in FormatOutcomes(req.question, raw_result)
            /\ response' = format_natural_response(req.question, raw_result, fmt)
            /\ calls' = calls \o FormatCalls(req.question, raw_result, fmt)
    /\ outcome' = "returned"
    /\ pc' = "done"
    /\ UNCHANGED <<store, schemaVars, clockVars, sqlVars, req, path, lookup, served, raw_result,
                   generated_sql, analysis, persisted, nreq, turns0, llm_reply>>

(***************************************************************************)
(* The service: requests one at a time, no time passing.                   *)
(***************************************************************************)
Next ==
    \/ \E r \in Requests : Request(r[1], r[2], r[3], r[4])
    \/ CacheLookup
    \/ AnalyzeStart
    \/ \E failures \in {{}, AllFail} : AnalyzeFetchOk(failures)
    \/ AnalyzeFetchFail
    \/ LlmRaise
    \/ \E t \in LLMReplies : LlmReply(t)
    \/ ExecuteRaise
    \/ \E n \in ResultCounts, viz \in BOOLEAN : ExecuteOk(n, viz)
    \/ Persist
    \/ \E ingested \in BOOLEAN : PersistRaise(ingested)
    \/ \E fmt \in {"ok", "llm_raise", "format_crash", "outer_crash"} : Respond(fmt)

Spec == Init /\ [][Next]_vars

(***************************************************************************)
(* The service answering one data question with the replies that carry a   *)
(* statement: what reaches the SQL executor.                               *)
(***************************************************************************)
SqlRequests ==
    {<<Q_ListSales, None, FALSE, TRUE>>, <<Q_ListSales, "powerbi_20250101_a", FALSE, FALSE>>}

NextExecute ==
    \/ \E r \in SqlRequests : Request(r[1], r[2], r[3], r[4])
    \/ CacheLookup
    \/ AnalyzeStart
    \/ AnalyzeFetchOk({})
    \/ \E t \in SqlReplies : LlmReply(t)
    \/ ExecuteRaise
    \/ \E n \in ResultCounts, viz \in BOOLEAN : ExecuteOk(n, viz)
    \/ Persist
    \/ Respond("ok")

SpecExecute == Init /\ [][NextExecute]_vars

(***************************************************************************)
(* The schema cache under its callers: the requests of the service and the *)
(* admin endpoints (api/endpoints/admin.py), with time passing.            *)
(***************************************************************************)
\* an endpoint that reads the schema (admin.py line 82)
AdminGet ==
    /\ SchemaGetStart("admin")
    /\ UNCHANGED <<store, clockVars, sqlVars, reqVars>>

\* POST /schema/refresh: refresh_cache, then get_cached_tables_info up to its
\* await; the emptied cache always makes it fetch
refresh_schema_cache ==
    /\ gets["admin"].pc = "idle"
    /\ cached_tables_info' = NoSnapshot
    /\ schema_cache_timestamp' = NoTimestamp
    /\ gets' = [gets EXCEPT !["admin"] = [pc |-> "fetching", current_time |-> now,
                                          id |-> nfetch + 1, failed |-> FALSE,
                                            failures |-> {}, result |-> NoSnapshot]]
    /\ nfetch' = nfetch + 1
    /\ invalidated' = nfetch
    /\ UNCHANGED <<store, clockVars, sqlVars, reqVars>>

\* the fetch of the admin endpoint completes
AdminFetchOk(failures) ==
    /\ SchemaFetchOk("admin", failures)
    /\ UNCHANGED <<store, clockVars, sqlVars, reqVars>>

\* the fetch of the admin endpoint fails
AdminFetchFail ==
    /\ SchemaFetchFail("admin")
    /\ UNCHANGED <<store, clockVars, sqlVars, reqVars>>

\* time passes
Advance(d) ==
    /\ Tick(d)
    /\ UNCHANGED <<store, schemaVars, reqVars, sqlVars>>

\* the requests of this specification: a probe, answered as raw data
SchemaRequests == {<<Q_TablesInfo, None, FALSE, TRUE>>}

NextSchema ==
    \/ \E r \in SchemaRequests : Request(r[1], r[2], r[3], r[4])
    \/ AnalyzeStart
    \/ \E failures \in FetchFailures : AnalyzeFetchOk(failures)
    \/ AnalyzeFetchFail
    \/ LlmReply(R_NoSql)
    \/ Respond("ok")
    \/ AdminGet
    \/ refresh_schema_cache
    \/ \E failures \in FetchFailures : AdminFetchOk(failures)
    \/ AdminFetchFail
    \/ \E d \in ClockSteps : Advance(d)

SpecSchema == Init /\ [][NextSchema]_vars

(***************************************************************************)
(* The functions of Utils on generated SQL: a text is drawn, then cleaned, *)
(* validated and sanitized in any order, up to MaxSqlCalls calls.          *)
(***************************************************************************)
InitSql ==
    /\ InitService
    /\ raw_sql \in SqlTexts
    /\ cur_sql = raw_sql
    /\ prev_sql = <<>>
    /\ sql_ops = <<>>
    /\ sql_message = None

\* cur_sql = Utils.clean_generated_sql(cur_sql)
CleanSql ==
    /\ Len(sql_ops) < MaxSqlCalls
    /\ cur_sql' = clean_generated_sql(cur_sql)
    /\ prev_sql' = cur_sql
    /\ sql_ops' = Append(sql_ops, "clean")
    /\ sql_message' = None
    /\ UNCHANGED <<raw_sql, store, schemaVars, clockVars, reqVars>>

\* cur_sql, message = Utils.validate_group_by_syntax(cur_sql)
ValidateGroupBy ==
    /\ Len(sql_ops) < MaxSqlCalls
    /\ LET result == validate_group_by_syntax(cur_sql) IN
        /\ cur_sql' = result.sql
        /\ sql_message' = result.message
    /\ prev_sql' = cur_sql
    /\ sql_ops' = Append(sql_ops, "validate_group_by")
    /\ UNCHANGED <<raw_sql, store, schemaVars, clockVars, reqVars>>

\* cur_sql = Utils.sanitize_sql(cur_sql), or the ValueError it raises
SanitizeSql ==
    /\ Len(sql_ops) < MaxSqlCalls
    /\ LET result == sanitize_sql(cur_sql) IN
        /\ cur_sql' = result.sql
        /\ sql_message' = IF result.raised THEN "ValueError" ELSE None
    /\ prev_sql' = cur_sql
    /\ sql_ops' = Append(sql_ops, "sanitize")
    /\ UNCHANGED <<raw_sql, store, schemaVars, clockVars, reqVars>>

NextSql ==
    \/ CleanSql
    \/ ValidateGroupBy
    \/ SanitizeSql

SpecSql == InitSql /\ [][NextSql]_vars

(***************************************************************************)
(* The classification of a question when its request arrives, over the     *)
(* texts of ClassifierTexts.                                               *)
(***************************************************************************)
ClassifierSessions == {None, "powerbi_20250101_a"}

NextClassify ==
    \E q \in ClassifierTexts, session_id \in ClassifierSessions :
        Request(q, session_id, FALSE, FALSE)

SpecClassify == Init /\ [][NextClassify]_vars

(***************************************************************************)
(* The cache lookup over tables that hold several turns of one question    *)
(* and turns of another session, with time passing between requests.       *)
(***************************************************************************)
\* a decodable turn of session_id written at time timestamp
StoredRow(session_id, timestamp, q, count) ==
    [SessionID |-> session_id, Timestamp |-> timestamp, Question |-> q,
     Response |-> PlainJson([LegacyResult(q) EXCEPT !.result_count = count,
                                                    !.session_id = session_id])]

\* the tables of this specification, rows in ingestion order: two turns of
\* "list sales" in one session, written at different times with different
\* results; a turn of another session only; both
LookupStores ==
    {<<StoredRow("powerbi_20250101_a", 0, Q_ListSales, 3),
       StoredRow("powerbi_20250101_a", 1, Q_ListSales, 0)>>,
     <<StoredRow("powerbi_20250101_b", 0, Q_ListSales, 3)>>,
     <<StoredRow("powerbi_20250101_b", 0, Q_ListSales, 3),
       StoredRow("powerbi_20250101_a", 0, Q_ListSales, 0),
       StoredRow("powerbi_20250101_a", 1, Q_ListSales, 3)>>}

InitLookup ==
    /\ store \in LookupStores
    /\ InitRequest
    /\ raw_sql = <<>>
    /\ cur_sql = <<>>
    /\ prev_sql = <<>>
    /\ sql_ops = <<>>
    /\ sql_message = None

LookupRequests ==
    {<<q, session_id, FALSE, TRUE>> :
        q \in {Q_ListSales, Q_ListSalesRaw},
        session_id \in {None, "powerbi_20250101_a", "powerbi_20250101_b"}}

NextLookup ==
    \/ \E r \in LookupRequests : Request(r[1], r[2], r[3], r[4])
    \/ CacheLookup
    \/ AnalyzeStart
    \/ AnalyzeFetchOk({})
    \/ LlmReply(R_Sql)
    \/ ExecuteOk(3, FALSE)
    \/ Persist
    \/ Respond("ok")
    \/ Advance(1)

SpecLookup == InitLookup /\ [][NextLookup]_vars

(***************************************************************************)
(* The entry points of the orchestrator (api/endpoints/analytics.py) and   *)
(* the session ids they resolve (utils/session_manager.py), over days.     *)
(***************************************************************************)
DaySeconds == 86400

\* datetime.now().strftime("%Y%m%d"), the clock starting on 2025-01-01
date_string == ToString(20250101 + (now \div DaySeconds))

\* the session parameters a client may send: none, the empty text, "new", a
\* session id, a text that is no session id
EndpointSessions == {None, "", "new", "powerbi_20250101_a", "s1"}

\* session.startswith('powerbi_')
StartsWithPowerbi(session) == session \in {"powerbi_20250101_a"}

\* SessionManager.generate_new_session_id
generate_new_session_id == "powerbi_" \o date_string \o "_" \o ToString(now * 1000)

\* SessionManager.get_session_id_from_request; None and "" are falsy
get_session_id_from_request(session) ==
    IF session \notin {None, ""} /\ (StartsWithPowerbi(session) \/ session = "new")
    THEN IF session = "new" THEN generate_new_session_id ELSE session
    ELSE "powerbi_" \o date_string \o "_default"

\* POST /fabric/intelligent up to its call of the orchestrator (lines 35-43)
intelligent_analyze_endpoint(question, session, enable_ai_insights) ==
    Request(question, get_session_id_from_request(session), enable_ai_insights, FALSE)

\* the report workflow (lines 118-122): the orchestrator is called without a
\* session id
run_workflow(data_query, include_ai_analysis) ==
    Request(data_query, None, include_ai_analysis, TRUE)

NextSession ==
    \/ \E session \in EndpointSessions : intelligent_analyze_endpoint(Q_ListSales, session, FALSE)
    \/ run_workflow(Q_ListSales, FALSE)
    \/ CacheLookup
    \/ AnalyzeStart
    \/ AnalyzeFetchOk({})
    \/ LlmReply(R_Sql)
    \/ ExecuteOk(3, FALSE)
    \/ Persist
    \/ \E fmt \in {"ok"} : Respond(fmt)
    \/ \E d \in {1, DaySeconds} : Advance(d)

SpecSession == Init /\ [][NextSession]_vars

(***************************************************************************)
(* Utils.remove_sql_comments on texts made of quotes, comment marks and    *)
(* line ends.                                                              *)
(***************************************************************************)
MaxTokens == 4
CommentTokens ==
    {<<"x">>, <<SQ>>, <<DQ>>, <<"-","-">>, <<"/","*">>, <<"*","/">>, <<"\n">>, <<"-">>}
\* "SELECT '--not a comment' FROM T"
S_QuotedDashes == <<"S","E","L","E","C","T"," ",SQ,"-","-","n","o","t"," ","a"," ","c","o","m","m","e","n","t",SQ," ","F","R","O","M"," ","T">>
\* "SELECT a /* it's */ FROM t -- all\nWHERE b = 'x' -- \"done"
S_Commented == <<"S","E","L","E","C","T"," ","a"," ","/","*"," ","i","t",SQ,"s"," ","*","/"," ","F","R","O","M"," ","t"," ","-","-"," ","a","l","l","\n","W","H","E","R","E"," ","b"," ","="," ",SQ,"x",SQ," ","-","-"," ",DQ,"d","o","n","e">>
CommentTexts ==
    {Join(ts, <<>>) : ts \in UNION {[1..n -> CommentTokens] : n \in 0..MaxTokens}}
    \cup {S_QuotedDashes, S_Commented}

InitComments ==
    /\ InitService
    /\ raw_sql \in CommentTexts
    /\ cur_sql = raw_sql
    /\ prev_sql = <<>>
    /\ sql_ops = <<>>
    /\ sql_message = None

\* cur_sql = Utils.remove_sql_comments(cur_sql)
RemoveComments ==
    /\ Len(sql_ops) < MaxSqlCalls
    /\ cur_sql' = remove_sql_comments(cur_sql)
    /\ prev_sql' = cur_sql
    /\ sql_ops' = Append(sql_ops, "remove_comments")
    /\ sql_message' = None
    /\ UNCHANGED <<raw_sql, store, schemaVars, clockVars, reqVars>>

NextComments == RemoveComments

SpecComments == InitComments /\ [][NextComments]_vars

(***************************************************************************)
(* Properties.                                                             *)
(***************************************************************************)
\* the request has made the external call
Called(call) == \E i \in 1..Len(calls) : calls[i] = call

\* a turn with the question text and session of the request was in the table
\* when the request arrived
IdenticalTurnStored ==
    \E i \in 1..turns0 : /\ store[i].SessionID = ActualSession(req.session_id)
                         /\ store[i].Question = req.question

\* C1: a question that is_contextual_question classifies as contextual is
\* never looked up in the cache, whatever the table holds: it is analysed
\* fresh, and the fresh analysis calls the LLM unless the schema could not be
\* obtained or lists no table.
C1_ContextualNeverCached ==
    (nreq > 0 /\ ContextualOf[req.question]) =>
        /\ lookup = None
        /\ ~Called("cache_lookup")
        /\ served # "cache"
        /\ pc = "done" =>
            /\ served = "fresh"
            /\ \/ Called("llm_sql")
               \/ raw_result \in {AnalysisErrorResult(req), NoTablesResult(req)}

\* a contextual question was answered by the LLM although a decodable turn
\* with the identical text was stored for its session
C1_Witness ==
    /\ pc = "done"
    /\ ContextualOf[req.question]
    /\ \E i \in 1..turns0 : /\ store[i].SessionID = ActualSession(req.session_id)
                            /\ store[i].Question = req.question
                            /\ JsonLoadsOk(store[i].Response)
    /\ Called("llm_sql")
    /\ served = "fresh"

\* C2 as stated: "why does it do that", asked when an identical turn is
\* stored for the session, never enters the cache lookup and calls the LLM.
C2_ScenarioE_AsStated ==
    (nreq > 0 /\ req.question = Q_WhyDoesItDoThat /\ IdenticalTurnStored) =>
        /\ lookup = None
        /\ ~Called("cache_lookup")
        /\ pc = "done" => Called("llm_sql")

\* C2, amended: "why does it do that" has five words, so it is not
\* classified contextual: it is cacheable, every request for it performs the
\* cache lookup, and a hit answers it without the SQL-generation LLM call.
\* The four-word question "why do that" is contextual and is never looked up.
C2_ScenarioE_FiveWords ==
    /\ (nreq > 0 /\ req.question = Q_WhyDoesItDoThat) =>
        /\ WordCount(Strip(Lower(req.question))) = 5
        /\ path = "cacheable"
        /\ pc # "lookup" => Called("cache_lookup")
        /\ lookup = "hit" => (served = "cache" /\ ~Called("llm_sql"))
    /\ (nreq > 0 /\ req.question = Q_WhyDoThat) =>
        /\ path = "contextual"
        /\ ~Called("cache_lookup")

\* "why does it do that" was answered from the cache
C2_Witness ==
    /\ pc = "done"
    /\ req.question = Q_WhyDoesItDoThat
    /\ IdenticalTurnStored
    /\ lookup = "hit"
    /\ served = "cache"
    /\ ~Called("llm_sql")

\* C3 as stated: once store_in_kql has written the turn of a successful
\* analysis for a session, a lookup in that session of a question with the
\* same normal form, when the query itself does not fail, is a cache hit.
\* (The turn considered here even holds the normal form itself as its
\* question text.)
C3_RepeatedQuestionHits ==
    (/\ lookup \notin {None, "raised"}
     /\ \E i \in 1..turns0 :
            /\ store[i].Response.enc = "b64"
            /\ ~HasError(store[i].Response.json)
            /\ store[i].SessionID = ActualSession(req.session_id)
            /\ store[i].Question = NormalizedOf[req.question])
    => lookup = "hit"

\* C4 as stated: after a cache hit the request makes no LLM call and no call
\* of the SQL executor.
C4_HitMakesNoLlmCall ==
    lookup = "hit" =>
        \A i \in 1..Len(calls) :
            calls[i] \notin {"llm_sql", "llm_viz", "llm_insights", "llm_format",
                             "llm_followups", "sql_execute"}

\* C4, amended: after a cache hit the request reads no history and no schema,
\* makes no SQL-generation, chart or insight LLM call, does not call the SQL
\* executor and writes no turn; the only calls after the lookup are the LLM
\* calls of the response formatter, and there is none when return_raw_data
\* is set, in which case the cached result itself is returned.
C4_HitSkipsAnalysis ==
    lookup = "hit" =>
        /\ served = "cache"
        /\ path = "cacheable"
        /\ calls[1] = "cache_lookup"
        /\ \A i \in 2..Len(calls) : calls[i] \in {"llm_format", "llm_followups"}
        /\ Len(store) = turns0
        /\ req.return_raw_data => calls = <<"cache_lookup">>
        /\ (pc = "done" /\ req.return_raw_data) => response.raw = raw_result

\* a cache hit was answered with an LLM call of the formatter
C4_Witness ==
    /\ pc = "done"
    /\ lookup = "hit"
    /\ Called("llm_format")
    /\ response.kind = "formatted"

\* C5: the SQL executor is called only with the non-empty statement that
\* clean_generated_sql returned and that starts with SELECT; a reply whose
\* repaired statement is empty ends as the "could not generate SQL" result
\* with its rephrase suggestion, the executor not being called.
C5_ExecuteOnlyRepairedSelect ==
    /\ Called("sql_execute") =>
        /\ llm_reply \in LLMReplies
        /\ ParsedOf[llm_reply].branch = "sql"
        /\ ParsedOf[llm_reply].generated_sql # <<>>
        /\ StartsWith(Upper(ParsedOf[llm_reply].generated_sql), W_SELECT)
        /\ generated_sql = ParsedOf[llm_reply].generated_sql
    /\ (/\ llm_reply \in LLMReplies
        /\ ParsedOf[llm_reply].branch = "sql"
        /\ ParsedOf[llm_reply].generated_sql = <<>>) =>
        /\ ~Called("sql_execute")
        /\ raw_result = NoSqlResult(req)
        /\ raw_result.response_type = "error"
        /\ raw_result.suggestion = Msg("Try rephrasing your question more specifically")

\* a reply whose statement the repair step emptied ended without execution
C5_Witness ==
    /\ pc = "done"
    /\ llm_reply \in {R_EmptySql, R_BadSql}
    /\ ParsedOf[llm_reply].generated_sql = <<>>
    /\ raw_result = NoSqlResult(req)
    /\ ~Called("sql_execute")

\* C6 as stated: a request answered fresh leaves exactly one more turn in the
\* table if its question is not a probe question, and none if it is.
C6_ExactlyOneTurn ==
    (pc = "done" /\ served = "fresh") =>
        IF IsProbe(req.question) THEN Len(store) = turns0 ELSE Len(store) = turns0 + 1

\* C6, amended: a request answered fresh appends at most one turn and changes
\* no earlier one.  It appends none when its question is a probe question or
\* its result mentions tables_info; otherwise it appends exactly one, the turn
\* of its question and result, when store_in_kql returns, and one or none
\* when store_in_kql raises.
C6_AtMostOneTurn ==
    (pc = "done" /\ served = "fresh") =>
        /\ Len(store) \in {turns0, turns0 + 1}
        /\ (IsProbe(req.question) \/ MentionsTablesInfo(raw_result)) => Len(store) = turns0
        /\ (~IsProbe(req.question) /\ ~MentionsTablesInfo(raw_result) /\ persisted # "failed") =>
            /\ persisted = "stored"
            /\ Len(store) = turns0 + 1
            /\ store[Len(store)] = NewRow(req.question, raw_result, req.session_id)
        /\ Len(store) = turns0 => (\/ IsProbe(req.question)
                                   \/ MentionsTablesInfo(raw_result)
                                   \/ persisted = "failed")

\* a question other than the probes ended in an LLM failure and left its turn
C6_Witness ==
    /\ pc = "done"
    /\ served = "fresh"
    /\ ~IsProbe(req.question)
    /\ raw_result = LlmErrorResult(req)
    /\ persisted = "stored"
    /\ Len(store) = turns0 + 1

\* C7: cached_intelligent_analyze never raises: whatever its collaborators
\* do, the request ends by returning a response; when the LLM call raises,
\* the result is the "LLM error" ErrorResult with its suggestion and the SQL
\* executor is not called.
C7_NeverRaises ==
    /\ outcome # "raised"
    /\ pc = "done" => (outcome = "returned" /\ response.kind \in {"raw", "formatted"})
    /\ llm_reply = ExcText =>
        /\ raw_result = LlmErrorResult(req)
        /\ IsErrorResult(raw_result)
        /\ ~Called("sql_execute")

\* a request whose LLM call raised returned a help message
C7_Witness ==
    /\ pc = "done"
    /\ llm_reply = ExcText
    /\ outcome = "returned"
    /\ response.kind = "formatted"
    /\ response.type = "help"
    /\ IsErrorResult(raw_result)

\* C8: a failure of store_in_kql changes nothing of the answer: the step that
\* persists leaves the result as it is whether it returns or raises, and the
\* response is computed from the question and that result alone.
C8_PersistFailureSwallowed ==
    [][/\ pc = "persist" =>
            /\ raw_result' = raw_result
            /\ req' = req
            /\ pc' = "format"
            /\ outcome' = "pending"
       /\ pc = "format" =>
            /\ outcome' = "returned"
            /\ IF req.return_raw_data
               THEN response'.raw = raw_result
               ELSE \E fmt \in FormatOutcomes(req.question, raw_result) :
                        response' = format_natural_response(req.question, raw_result, fmt)]_vars

\* a contextual question was answered although its turn could not be written
C8_Witness ==
    /\ pc = "done"
    /\ path = "contextual"
    /\ persisted = "failed"
    /\ Len(store) = turns0
    /\ outcome = "returned"
    /\ ~HasError(raw_result)
    /\ response.type = "analysis"

\* C9: a call of get_cached_tables_info returns the snapshot without a fetch
\* when there is a snapshot whose age is below schema_cache_duration, and
\* starts a fetch otherwise.  (The cache is taken as the call finds it: the
\* refresh endpoint empties it before it calls.)
C9_ServesWithinTtl ==
    [][\A c \in Callers :
        (gets[c].pc = "idle" /\ gets'[c].pc # "idle") =>
            IF /\ cached_tables_info' # NoSnapshot
               /\ now - schema_cache_timestamp' < schema_cache_duration
            THEN /\ gets'[c].pc = "returned"
                 /\ gets'[c].result = cached_tables_info
                 /\ nfetch' = nfetch
                 /\ cached_tables_info' = cached_tables_info
                 /\ schema_cache_timestamp' = schema_cache_timestamp
            ELSE /\ gets'[c].pc = "fetching"
                 /\ nfetch' = nfetch + 1]_vars

\* a call was served from a snapshot one second short of the TTL
C9_Witness ==
    \E c \in Callers :
        /\ gets[c].pc = "returned"
        /\ gets[c].id = 0
        /\ cached_tables_info # NoSnapshot
        /\ gets[c].result = cached_tables_info
        /\ gets[c].current_time - schema_cache_timestamp = schema_cache_duration - 1

\* C10: when the fetch of a call fails, snapshot and timestamp stay as they
\* are; the call returns the snapshot if there is one and raises otherwise;
\* and a request whose call raised ends with the "Analysis error" ErrorResult
\* without calling the LLM.
C10_RefreshFailure ==
    [][/\ \A c \in Callers :
            (gets'[c].failed /\ ~gets[c].failed) =>
                /\ cached_tables_info' = cached_tables_info
                /\ schema_cache_timestamp' = schema_cache_timestamp
                /\ IF cached_tables_info # NoSnapshot
                   THEN gets'[c].pc = "returned" /\ gets'[c].result = cached_tables_info
                   ELSE gets'[c].pc = "raised"
       /\ gets'["req"].pc = "raised" =>
            /\ raw_result' = AnalysisErrorResult(req')
            /\ IsErrorResult(raw_result')
            /\ outcome' # "raised"
            /\ \A i \in 1..Len(calls') : calls'[i] # "llm_sql"]_vars

\* a request whose refresh failed was answered from the prior snapshot
C10_Witness ==
    /\ pc = "done"
    /\ gets["req"].failed
    /\ gets["req"].pc = "returned"
    /\ cached_tables_info # NoSnapshot
    /\ gets["req"].result = cached_tables_info
    /\ gets["req"].id # cached_tables_info.id
    /\ now - schema_cache_timestamp >= schema_cache_duration
    /\ ~HasError(raw_result)

\* C11: once refresh_cache has run, a call of get_cached_tables_info that
\* starts afterwards is never served a snapshot whose fetch began before
\* refresh_cache ran, whatever fetches were in flight at that moment.
C11_NoSnapshotFromBeforeInvalidate ==
    [][\A c \in Callers :
        (/\ invalidated # NeverInvalidated
         /\ gets[c].pc = "idle"
         /\ gets'[c].pc = "returned") =>
            gets'[c].result.id > invalidated]_vars

\* C12: when get_tables_info returns, the snapshot holds exactly the tables
\* none of whose column, foreign-key and sample-row queries failed, and the
\* refresh succeeds: the call returns that snapshot and it becomes the cache.
C12_FailedTableDropped ==
    [][\A c \in Callers :
        (gets[c].pc = "fetching" /\ gets'[c].pc = "returned" /\ ~gets'[c].failed) =>
            /\ gets'[c].result.tables =
                   {t \in Tables : \A q \in MetadataQueries : <<t, q>> \notin gets'[c].failures}
            /\ gets'[c].result.id = gets[c].id
            /\ cached_tables_info' = gets'[c].result
            /\ schema_cache_timestamp' = gets[c].current_time]_vars

\* a refresh in which the foreign-key query of Sales failed returned a
\* snapshot of Financial alone
C12_Witness ==
    \E c \in Callers :
        /\ gets[c].pc = "returned"
        /\ ~gets[c].failed
        /\ gets[c].failures = {<<"Sales", "fks">>}
        /\ gets[c].result.tables = {"Financial"}
        /\ cached_tables_info = gets[c].result

\* the last call made on the SQL text
LastSqlOp == IF sql_ops = <<>> THEN None ELSE sql_ops[Len(sql_ops)]

\* every non-aggregate SELECT column of sql, normalized, occurs in the
\* normalized text of its GROUP BY list
GroupByCovers(sql) ==
    LET cols == SelectColumns(sql) IN
    \A k \in 1..Len(cols) :
        Contains(NormalizeColumn(GroupByPart(sql)), NormalizeColumn(cols[k]))

\* a SELECT item without its alias
BeforeAlias(item) ==
    IF Contains(Upper(item), W_AS)
    THEN Strip(SubSeq(item, 1, Find(Upper(item), W_AS) - 1))
    ELSE item

\* the non-aggregate SELECT items of sql that its GROUP BY list does not
\* cover, in SELECT order
UncoveredItems(sql) ==
    SelectSeq(NonAggregateItems(SelectPart(sql)),
              LAMBDA item : ~is_column_in_group_by(BeforeAlias(item), GroupByColumns(sql)))

\* the GROUP BY list of sql followed by the given entries
ListWith(sql, entries) ==
    (IF GroupByPart(sql) # <<>> THEN GroupByPart(sql) \o W_COMMA_SP ELSE <<>>)
        \o Join(entries, W_COMMA_SP)

\* the text of sql from the end of its GROUP BY list on
AfterGroupBy(sql) == SubSeq(sql, GroupByEnd(sql, Find(Upper(sql), W_GROUP_BY)), Len(sql))

\* C13: cleaning a cleaned text changes nothing: clean(clean(sql)) equals
\* clean(sql) whenever clean(sql) is not empty.
C13_CleanIdempotent ==
    (sql_ops = <<"clean", "clean">> /\ prev_sql # <<>>) => cur_sql = prev_sql

\* C14: a statement handed to the SQL executor that has a GROUP BY clause
\* has every non-aggregate SELECT column in it.
C14_ExecutedGroupByCovered ==
    (Called("sql_execute") /\ Contains(Upper(generated_sql), W_GROUP_BY)) =>
        GroupByCovers(generated_sql)

\* C15: a non-empty text returned by clean_generated_sql starts with SELECT,
\* contains FROM, contains none of "FROM FROM", ", FROM", "SELECT FROM",
\* "WHERE FROM", and its last word is not a dangling FROM, SELECT, WHERE, AND,
\* OR, JOIN, ON or GROUP BY.
C15_CleanedIsComplete ==
    (LastSqlOp = "clean" /\ cur_sql # <<>>) =>
        /\ StartsWith(Upper(cur_sql), W_SELECT)
        /\ Contains(Upper(cur_sql), W_FROM)
        /\ \A issue \in ObviousIssues : ~Contains(Upper(cur_sql), issue)
        /\ \A keyword \in DanglingKeywords : ~EndsWith(Upper(Strip(cur_sql)), keyword)

\* C16: a statement handed to the SQL executor contains no dangerous keyword
\* and is one that sanitize_sql lets through.
C16_ExecutedIsSanitized ==
    Called("sql_execute") =>
        /\ \A keyword \in dangerous_keywords : ~Contains(Upper(generated_sql), keyword)
        /\ llm_reply \in AllReplies
        /\ ~SanitizedOf[llm_reply].raised

\* C17 as stated: the auto-fix appends the uncovered SELECT items in full,
\* alias included.
C17_AppendsVerbatim ==
    [][(LastSqlOp' = "validate_group_by" /\ Len(sql_ops') = Len(sql_ops) + 1
            /\ sql_message' = "Auto-fixed GROUP BY") =>
        GroupByPart(cur_sql') = ListWith(cur_sql, UncoveredItems(cur_sql))]_vars

\* C17: when validate_group_by_syntax fixes a statement, the GROUP BY list of
\* the result is the old list followed by the uncovered non-aggregate SELECT
\* items in SELECT order, each without its alias; the text before the list
\* and the HAVING / ORDER BY text after it are kept.  For Scenario B the list
\* becomes "[Client], DATEPART(YEAR,[Date])".
C17_AppendsExpressions ==
    [][(LastSqlOp' = "validate_group_by" /\ Len(sql_ops') = Len(sql_ops) + 1
            /\ sql_message' = "Auto-fixed GROUP BY") =>
        LET uncovered == UncoveredItems(cur_sql) IN
        /\ uncovered # <<>>
        /\ GroupByPart(cur_sql') =
               ListWith(cur_sql, AsSeq([k \in 1..Len(uncovered) |-> BeforeAlias(uncovered[k])]))
        /\ SubSeq(cur_sql', 1, Find(Upper(cur_sql'), W_GROUP_BY) + 7) =
               SubSeq(cur_sql, 1, Find(Upper(cur_sql), W_GROUP_BY) + 7)
        /\ AfterGroupBy(cur_sql') = AfterGroupBy(cur_sql)
        /\ cur_sql = S_ScenarioB => GroupByPart(cur_sql') = <<"[","C","l","i","e","n","t","]",","," ","D","A","T","E","P","A","R","T","(","Y","E","A","R",",","[","D","a","t","e","]",")">>]_vars

\* Scenario B was fixed, and so was a statement with HAVING and ORDER BY
\* after its GROUP BY list
C17_Witness ==
    /\ raw_sql \in {S_ScenarioB, S_HavingOrder}
    /\ sql_ops = <<"validate_group_by">>
    /\ sql_message = "Auto-fixed GROUP BY"
    /\ cur_sql # raw_sql
    /\ raw_sql = S_HavingOrder => Contains(cur_sql, W_HAVING) /\ Contains(cur_sql, W_ORDER_BY)

\* C18: when every non-aggregate SELECT column of a statement occurs in its
\* GROUP BY clause, validate_group_by_syntax returns the statement unchanged
\* with the message "GROUP BY validation passed".
C18_CoveredIsUnchanged ==
    [][(/\ LastSqlOp' = "validate_group_by" /\ Len(sql_ops') = Len(sql_ops) + 1
        /\ Contains(Upper(cur_sql), W_GROUP_BY)
        /\ Contains(Upper(cur_sql), W_SELECT) /\ Contains(Upper(cur_sql), W_FROM)
        /\ GroupByCovers(cur_sql)) =>
            /\ cur_sql' = cur_sql
            /\ sql_message' = "GROUP BY validation passed"]_vars

\* the reply holds SQL_QUERY: with ANALYSIS: after it, and not NO_SQL_NEEDED
BothMarkers(t) ==
    /\ Contains(t, M_SQL_QUERY)
    /\ ~Contains(t, M_NO_SQL_NEEDED)
    /\ Contains(AfterFirst(t, M_SQL_QUERY), M_ANALYSIS)

\* the sql of the parse of t is the trimmed text between the markers
YieldsTextBetween(t) ==
    LET p == ParsedOf[t] IN
    /\ p.generated_sql = Strip(BeforeFirst(AfterFirst(t, M_SQL_QUERY), M_ANALYSIS))
    /\ p.analysis = Strip(AfterFirst(AfterFirst(t, M_SQL_QUERY), M_ANALYSIS))
    /\ t = R_BadSql => p.generated_sql = S_NoFrom /\ p.analysis = <<"o","k">>

\* t is some text, SQL_QUERY:, the extracted text, ANALYSIS: and the analysis,
\* with whitespace around the last two and no ANALYSIS: inside the extracted
\* text; the sql is the extracted text as clean_generated_sql returns it
ExtractsThenCleans(t) ==
    LET p == ParsedOf[t] IN
    /\ p.branch = "sql"
    /\ \E w1, w2, w3, w4 \in {<<>>, <<"\n">>, <<"\n", "\n">>, <<" ">>} :
           \E head \in {<<>>} \cup {SubSeq(t, 1, i) : i \in 1..Len(t)} :
               t = head \o M_SQL_QUERY \o w1 \o p.extracted \o w2
                        \o M_ANALYSIS \o w3 \o p.analysis \o w4
    /\ ~Contains(p.extracted, M_ANALYSIS)
    /\ p.extracted = Strip(p.extracted)
    /\ p.analysis = Strip(p.analysis)
    /\ p.generated_sql = clean_generated_sql(p.extracted)
    /\ t = R_BadSql =>
           p.extracted = S_NoFrom /\ p.analysis = <<"o","k">> /\ p.generated_sql = <<>>

YieldsTextBetweenOf == [t \in AllReplies |-> YieldsTextBetween(t)]
ExtractsThenCleansOf == [t \in AllReplies |-> ExtractsThenCleans(t)]

\* C19 as stated: for a reply with SQL_QUERY: followed by ANALYSIS:, the sql
\* the parser yields is the trimmed text between the two markers and the
\* analysis the trimmed text after ANALYSIS:; for Scenario C they are
\* "SELECT 1" and "ok".
C19_ScenarioC_AsStated ==
    (llm_reply \in AllReplies /\ BothMarkers(llm_reply)) => YieldsTextBetweenOf[llm_reply]

\* C19: for a reply with SQL_QUERY: followed by ANALYSIS:, the parser
\* extracts the text between the two markers and takes as analysis the text
\* after ANALYSIS:, both without surrounding whitespace; the sql it yields is
\* what clean_generated_sql returns for the extracted text.  For Scenario C
\* the extracted text is "SELECT 1" and the analysis "ok"; the sql is empty,
\* "SELECT 1" having no FROM.
C19_ParserExtractsThenCleans ==
    (llm_reply \in AllReplies /\ BothMarkers(llm_reply)) => ExtractsThenCleansOf[llm_reply]

\* the reply of Scenario C was parsed; the repair step then rejected "SELECT 1"
C19_Witness ==
    /\ llm_reply = R_BadSql
    /\ pc = "done"
    /\ ParsedOf[llm_reply].extracted = S_NoFrom
    /\ ParsedOf[llm_reply].generated_sql = <<>>
    /\ ~Called("sql_execute")

\* C20: a reply without SQL_QUERY: and ANALYSIS: that contains SELECT is
\* parsed as SQL, not answered as a conversational reply.
C20_BareSelectIsSql ==
    (/\ llm_reply \in AllReplies
     /\ ~Contains(llm_reply, M_SQL_QUERY)
     /\ ~Contains(llm_reply, M_ANALYSIS)
     /\ Contains(Upper(llm_reply), W_SELECT)) =>
        /\ ParsedOf[llm_reply].branch = "sql"
        /\ raw_result.response_type # "conversational"

\* C21: for a greeting question (hi, hello, hey or greetings, in any case)
\* the request never calls the SQL executor, whatever the LLM replies.
C21_GreetingSkipsSql ==
    (nreq > 0 /\ is_casual_greeting(req.question)) => ~Called("sql_execute")

\* the number of words of a text: the characters that end a run of
\* non-whitespace
WordEnds(q) ==
    Cardinality({i \in 1..Len(q) : ~IsWs(q[i]) /\ (i = Len(q) \/ IsWs(q[i + 1]))})

\* one of why, how, what, explain, analyze occurs in q, in any case
HoldsKeyword(q) ==
    \E k \in {K_why, K_how, K_what, K_explain, K_analyze} :
        \E i \in 1..Len(q) :
            /\ i + Len(k) - 1 <= Len(q)
            /\ \A j \in 1..Len(k) : LowerChar(q[i + j - 1]) = k[j]

MatchingTurns(n) ==
    {i \in 1..n : /\ store[i].SessionID = ActualSession(req.session_id)
                  /\ store[i].Question = NormalizedOf[req.question]}

\* C23: when several turns of the session carry the normalized question of
\* the request, a cache hit returns the result of the turn with the greatest
\* Timestamp among them.
C23_HitIsLatestTurn ==
    lookup = "hit" =>
        \E i \in MatchingTurns(turns0) :
            /\ \A j \in MatchingTurns(turns0) : store[j].Timestamp <= store[i].Timestamp
            /\ raw_result = [store[i].Response.json EXCEPT
                                !.session_id = ActualSession(req.session_id)]

\* the session ids the session manager resolves a request without a session
\* id to, by day (in this specification no client sends such an id itself)
DefaultSessionIds ==
    {"powerbi_" \o ToString(20250101 + d) \o "_default" : d \in 0..MaxTicks}

\* C24: any two requests that reach the endpoint without a session id, at any
\* two times, are resolved to the same session id.
C24_OneDefaultSession ==
    [][(/\ nreq > 0
        /\ nreq' = nreq + 1
        /\ req.session_id \in DefaultSessionIds
        /\ req'.session_id \in DefaultSessionIds)
       => ActualSession(req'.session_id) = ActualSession(req.session_id)]_vars

\* where a reader of s stands after each of its characters: in the code, in
\* a literal opened by a quote (the quote itself), in a line comment, or in a
\* block comment ("open": between its "/" and "*", "close": between the "*"
\* and "/" that end it)
ScannerModes(s) ==
    LET RECURSIVE mode(_)
        mode(i) ==
            IF i = 0 THEN "code"
            ELSE LET prev == mode(i - 1)
                     c == s[i]
                     next == IF i < Len(s) THEN s[i + 1] ELSE ""
                 IN IF prev \in {"code", "end"}
                    THEN IF c \in {SQ, DQ} THEN c
                         ELSE IF c = "-" /\ next = "-" THEN "line"
                         ELSE IF c = "/" /\ next = "*" THEN "open"
                         ELSE "code"
                    ELSE IF prev \in {SQ, DQ} THEN (IF c = prev THEN "end" ELSE prev)
                    ELSE IF prev = "line" THEN (IF c = "\n" THEN "code" ELSE "line")
                    ELSE IF prev = "open" THEN "block"
                    ELSE IF prev = "block"
                    THEN (IF c = "*" /\ next = "/" THEN "close" ELSE "block")
                    ELSE "code"
    IN [i \in 0..Len(s) |-> mode(i)]

\* the characters of s that belong to a comment outside the literals
CommentChars(s) ==
    LET m == ScannerModes(s) IN
    {i \in 1..Len(s) : \/ m[i] \in {"line", "open", "block", "close"}
                       \/ m[i - 1] \in {"line", "close"}}

\* the characters of s that belong to a literal, its quotes included
LiteralChars(s) ==
    LET m == ScannerModes(s) IN
    {i \in 1..Len(s) : m[i] \in {SQ, DQ} \/ m[i - 1] \in {SQ, DQ}}

\* the last characters of the comments of s that leave a space: the line end
\* of a line comment, the end of a block comment
CommentEnds(s) ==
    LET m == ScannerModes(s) IN
    {i \in CommentChars(s) :
        \/ m[i - 1] = "line" /\ s[i] = "\n"
        \/ m[i - 1] = "close"
        \/ i = Len(s) /\ m[i] \in {"open", "block", "close"}}

\* s with every comment outside the literals replaced by one space (by
\* nothing for a line comment that runs to the end of the text)
WithoutComments(s) ==
    Pick(AsSeq([i \in 1..Len(s) |-> IF i \in CommentChars(s) THEN " " ELSE s[i]]),
         (1..Len(s)) \ (CommentChars(s) \ CommentEnds(s)))

\* the literals of s, in order, as one text
LiteralText(s) == Pick(s, LiteralChars(s))

\* C25: remove_sql_comments removes every -- comment and every /* */
\* comment that lies outside the string literals, one space taking the place
\* of each (none for a line comment that runs to the end), and leaves every
\* character of a single- or double-quoted literal as it is; nothing that
\* begins a comment remains outside the literals of the result, and
\* "SELECT '--not a comment' FROM T" is returned unchanged.
C25_CommentsRemovedLiteralsKept ==
    LastSqlOp = "remove_comments" =>
        /\ cur_sql = WithoutComments(prev_sql)
        /\ LiteralText(cur_sql) = LiteralText(prev_sql)
        /\ CommentChars(cur_sql) = {}
        /\ CommentChars(prev_sql) = {} => cur_sql = prev_sql
        /\ prev_sql = S_QuotedDashes => cur_sql = S_QuotedDashes

\* a text with a comment mark inside a literal and comments of both kinds
\* outside lost the comments and kept the literals
C25_Witness ==
    /\ sql_ops = <<"remove_comments">>
    /\ raw_sql = S_Commented
    /\ cur_sql # raw_sql
    /\ ~Contains(cur_sql, <<"a","l","l">>)
    /\ Contains(cur_sql, <<SQ,"x",SQ>>)
    /\ LiteralText(cur_sql) = LiteralText(raw_sql)

\* C26: under every interleaving of the calls of get_cached_tables_info and
\* refresh_cache, the snapshot and the timestamp are both unset or both set,
\* and they change only together: both are unset by refresh_cache, or both
\* are set by one call whose fetch succeeded, to the whole result of that
\* fetch and the time that call read.  A call returns either the snapshot as
\* the cache held it or the whole result of its own fetch, and a snapshot,
\* once cached or returned, is not changed: the cache replaces it by another.
C26_SnapshotReplacedWhole ==
    [][/\ (cached_tables_info' = NoSnapshot) <=> (schema_cache_timestamp' = NoTimestamp)
       /\ <<cached_tables_info, schema_cache_timestamp>>' # <<cached_tables_info, schema_cache_timestamp>> =>
            \/ /\ cached_tables_info' = NoSnapshot
               /\ schema_cache_timestamp' = NoTimestamp
               /\ invalidated' = nfetch
            \/ \E c \in Callers :
                /\ gets[c].pc = "fetching"
                /\ gets'[c].pc = "returned"
                /\ cached_tables_info' = [id |-> gets[c].id,
                                          tables |-> get_tables_info(gets'[c].failures)]
                /\ schema_cache_timestamp' = gets[c].current_time
       /\ \A c \in Callers :
            /\ (gets[c].pc # "returned" /\ gets'[c].pc = "returned") =>
                    \/ gets'[c].result = cached_tables_info /\ cached_tables_info # NoSnapshot
                    \/ /\ gets'[c].result = cached_tables_info'
                       /\ gets'[c].result.id = gets[c].id
                       /\ gets[c].pc = "fetching"
            /\ (gets[c].pc = "returned" /\ gets'[c].pc = "returned") =>
                    gets'[c].result = gets[c].result
            /\ (gets'[c].result.id = cached_tables_info'.id) =>
                    gets'[c].result = cached_tables_info'
       /\ cached_tables_info'.id = cached_tables_info.id =>
            cached_tables_info' = cached_tables_info]_vars

\* refresh_cache ran while a call was fetching; that call returned its whole
\* result, which the cache has since replaced by the result of another fetch
C26_Witness ==
    \E c \in Callers :
        /\ invalidated # NeverInvalidated
        /\ gets[c].pc = "returned"
        /\ gets[c].id # 0
        /\ gets[c].id <= invalidated
        /\ gets[c].result.tables = Tables
        /\ cached_tables_info # NoSnapshot
        /\ cached_tables_info.id > gets[c].id
        /\ cached_tables_info.tables # gets[c].result.tables
        /\ schema_cache_timestamp # NoTimestamp

TimesCalled(call) == Cardinality({i \in 1..Len(calls) : calls[i] = call})

\* C28: within one request the SQL-generation LLM call is made at most once
\* and the SQL executor is called at most once; once the LLM call has failed
\* the request goes on to its response without calling the LLM for SQL again
\* and without calling the executor, and once the executor has failed the
\* request goes on to its response without calling it again.
C28_SingleAttempt ==
    /\ TimesCalled("llm_sql") <= 1
    /\ TimesCalled("sql_execute") <= 1
    /\ TimesCalled("sql_execute") <= TimesCalled("llm_sql")
    /\ llm_reply = ExcText =>
        /\ TimesCalled("llm_sql") = 1
        /\ TimesCalled("sql_execute") = 0
        /\ raw_result = LlmErrorResult(req)
        /\ pc \in {"persist", "format", "done"}
    /\ raw_result = SqlExecutionErrorResult(req) =>
        /\ TimesCalled("llm_sql") = 1
        /\ TimesCalled("sql_execute") = 1
        /\ pc \in {"persist", "format", "done"}

\* a request whose statement failed to execute was answered after one LLM
\* call for SQL and one call of the executor
C28_Witness ==
    /\ pc = "done"
    /\ outcome = "returned"
    /\ raw_result = SqlExecutionErrorResult(req)
    /\ TimesCalled("llm_sql") = 1
    /\ TimesCalled("sql_execute") = 1

\* ANALYSIS: occurs in the reply only before SQL_QUERY:
AnalysisOnlyBefore(t) ==
    /\ Contains(t, M_SQL_QUERY)
    /\ ~Contains(t, M_NO_SQL_NEEDED)
    /\ Contains(BeforeFirst(t, M_SQL_QUERY), M_ANALYSIS)
    /\ ~Contains(AfterFirst(t, M_SQL_QUERY), M_ANALYSIS)

AnalysisOnlyBeforeOf == [t \in AllReplies |-> AnalysisOnlyBefore(t)]

\* C29: a reply in which ANALYSIS: occurs only before SQL_QUERY: is parsed by
\* the SQL_QUERY-only branch: the text after SQL_QUERY: is the statement, the
\* analysis is the placeholder "SQL query generated", and the request does
\* not end with the "LLM error" result.
C29_AnalysisFirstIsParsed ==
    (llm_reply \in AllReplies /\ AnalysisOnlyBeforeOf[llm_reply]) =>
        /\ ParsedOf[llm_reply].branch = "sql"
        /\ ParsedOf[llm_reply].extracted = Strip(AfterFirst(llm_reply, M_SQL_QUERY))
        /\ ParsedOf[llm_reply].analysis = Msg("SQL query generated")
        /\ raw_result # LlmErrorResult(req)

\* C30: the ErrorResult of a cacheable question is never written as a turn
\* that the cache query of a later request of the same session and question
\* selects.
C30_ErrorResultNotCached ==
    (nreq > 0 /\ path = "cacheable" /\ IsErrorResult(raw_result)) =>
        ~\E i \in (turns0 + 1)..Len(store) :
            /\ store[i].SessionID = ActualSession(req.session_id)
            /\ store[i].Question = NormalizedOf[req.question]
            /\ store[i].Response.json = raw_result

====
